---- MODULE Spec2Model ----
(***************************************************************************)
(* A model of the tat-songs crawl-and-materialize pipeline:                *)
(*   download_songs.py  Fetcher, Extractor, Artifact Namer, Record Store,   *)
(*                      Collector (collect_all_songs), Processor            *)
(*                      (process_songs) and main                            *)
(*   batch_process.py   Batch Orchestrator (process_batch)                  *)
(*                                                                         *)
(* Text is a sequence of character tokens.  The lexer accepts ASCII only,   *)
(* so a Cyrillic letter is written as a token: "C_R" is the capital letter  *)
(* ER, "c_a" the small letter A, and so on; Latin letters, digits and       *)
(* punctuation are one-character strings.  A nullable column holds <<>>     *)
(* (NULL) or <<v>>.                                                         *)
(***************************************************************************)
EXTENDS Integers, Sequences, FiniteSets, TLC

\* ------------------------------------------------------------------ bounds

\* Catalog pages the modelled site has (page indexes 0 .. NumPages-1).
NumPages == 2
\* Largest value of CURRENT_TIMESTAMP the model distinguishes.
MaxClock == 1
\* Largest --limit / --batch-size an operator passes.
MaxLimit == 2
\* Largest --max-batches an operator passes.
MaxBatches == 1
\* Largest max_retries the Fetcher is configured with in FetcherSpec.
MaxRetries == 4
\* Most links a listing page handed to the Extractor carries in FunctionSpec.
MaxRows == 3
\* Files the directory translated/ holds in NormalizeSpec.
MaxFiles == 3

\* ------------------------------------------------------- program constants

\* get_page_content(url, session, max_retries=3)
DefaultMaxRetries == 3
\* SELECT ... ORDER BY RANDOM() LIMIT 100
TestSampleSize == 100
\* normalize_names.py: SIMILARITY_THRESHOLD = 0.92 and
\* AUTO_MERGE_VERY_HIGH_SIMILARITY = 0.95, in percent;
\* AUTO_MERGE_MIN_DIFF_RATIO = 2.0; AUTO_MERGE_MIN_ABS_DIFF = 3.
SIMILARITY_THRESHOLD == 92
AUTO_MERGE_VERY_HIGH_SIMILARITY == 95
AUTO_MERGE_MIN_DIFF_RATIO == 2
AUTO_MERGE_MIN_ABS_DIFF == 3

\* ------------------------------------------------------------------- text

NULL == <<>>
Some(v) == <<v>>

\* transliterate_tatar_to_latin: the mapping table, on the letters the model
\* uses; mapping.get(char, char) leaves any other character as it is.
Mapping(c) ==
    CASE c = "C_R"  -> <<"R">>
      [] c = "C_S"  -> <<"S">>
      [] c = "C_K"  -> <<"K">>
      [] c = "C_SH" -> <<"S", "h">>
      [] c = "c_a"  -> <<"a">>
      [] c = "c_d"  -> <<"d">>
      [] c = "c_i"  -> <<"i">>
      [] c = "c_k"  -> <<"k">>
      [] c = "c_g"  -> <<"g">>
      [] c = "c_y"  -> <<"i">>
      [] c = "c_n"  -> <<"n">>
      [] c = "c_u"  -> <<"u">>
      [] c = "c_r"  -> <<"r">>
      [] c = "c_soft" -> <<>>
      [] OTHER      -> <<c>>

\* str.lower() on one character.
Lower(c) ==
    CASE c = "R" -> "r"
      [] c = "S" -> "s"
      [] c = "K" -> "k"
      [] OTHER   -> c

\* \s of the regular expressions.
IsSpace(c) == c \in {" ", "\t", "\n"}

\* \w of the regular expressions (Unicode letters, digits, underscore).
IsWord(c) ==
    c \in {"R", "S", "K", "a", "d", "i", "k", "g", "n", "u", "r", "s", "h", "m",
           "0", "1", "_",
           "C_R", "C_S", "C_K", "C_SH", "c_a", "c_d", "c_i", "c_k", "c_g", "c_y",
           "c_n", "c_u", "c_r", "c_soft"}

RECURSIVE Flatten(_)
\* ''.join(result)
Flatten(ss) == IF ss = <<>> THEN <<>> ELSE Head(ss) \o Flatten(Tail(ss))

\* The characters re.sub(r'[^\w\s-]', '', s) keeps.
KeptByTransliterate(c) == IsWord(c) \/ IsSpace(c) \/ c = "-"

\* The characters re.sub(r'[<>:"/\\|?*]', '', s) keeps.
KeptBySanitize(c) == c \notin {"<", ">", ":", "\"", "/", "\\", "|", "?", "*"}

RECURSIVE RemoveUnwanted(_)
RemoveUnwanted(s) ==
    IF s = <<>> THEN <<>>
    ELSE (IF KeptByTransliterate(Head(s)) THEN <<Head(s)>> ELSE <<>>)
             \o RemoveUnwanted(Tail(s))

RECURSIVE RemoveUnsafe(_)
RemoveUnsafe(s) ==
    IF s = <<>> THEN <<>>
    ELSE (IF KeptBySanitize(Head(s)) THEN <<Head(s)>> ELSE <<>>)
             \o RemoveUnsafe(Tail(s))

RECURSIVE CollapseSpaces(_)
\* re.sub(r'\s+', '_', s)
CollapseSpaces(s) ==
    IF s = <<>> THEN <<>>
    ELSE IF IsSpace(Head(s))
         THEN IF Len(s) > 1 /\ IsSpace(s[2])
              THEN CollapseSpaces(Tail(s))
              ELSE <<"_">> \o CollapseSpaces(Tail(s))
         ELSE <<Head(s)>> \o CollapseSpaces(Tail(s))

RECURSIVE LStrip(_, _)
LStrip(s, cs) ==
    IF s # <<>> /\ Head(s) \in cs THEN LStrip(Tail(s), cs) ELSE s

RECURSIVE RStrip(_, _)
RStrip(s, cs) ==
    IF s # <<>> /\ s[Len(s)] \in cs THEN RStrip(SubSeq(s, 1, Len(s) - 1), cs) ELSE s

\* str.strip(chars)
Strip(s, cs) == RStrip(LStrip(s, cs), cs)

transliterate_tatar_to_latin(text) ==
    LET result == [i \in 1..Len(text) |-> Mapping(text[i])]
        joined == Flatten(result)
        latin  == [i \in 1..Len(joined) |-> Lower(joined[i])]
    IN  CollapseSpaces(RemoveUnwanted(latin))

sanitize_filename(filename) ==
    Strip(CollapseSpaces(RemoveUnsafe(filename)), {"_", " "})

\* The truth value Python gives a string: empty is false.
Truthy(s) == s # <<>>

\* An attribution with the musician first.
ArtistNameMusicianFirst(song_data, sep) ==
    IF Truthy(song_data.songwriter) /\ Truthy(song_data.musician)
    THEN song_data.musician \o sep \o song_data.songwriter
    ELSE IF Truthy(song_data.songwriter) THEN song_data.songwriter
    ELSE IF Truthy(song_data.musician) THEN song_data.musician
    ELSE <<>>

\* generate_filename and format_lyrics_markdown build the same attribution,
\* joined by sep.
ArtistName(song_data, sep) ==
    IF Truthy(song_data.songwriter) /\ Truthy(song_data.musician)
    THEN song_data.songwriter \o sep \o song_data.musician
    ELSE IF Truthy(song_data.songwriter) THEN song_data.songwriter
    ELSE IF Truthy(song_data.musician) THEN song_data.musician
    ELSE <<>>

generate_filename(song_data) ==
    LET artist_name == ArtistName(song_data, <<" ">>)
        filename_base == IF Truthy(artist_name)
                         THEN artist_name \o <<" ", "-", " ">> \o song_data.title
                         ELSE song_data.title
    IN  sanitize_filename(transliterate_tatar_to_latin(filename_base))
            \o <<".", "m", "d">>

\* The artifact's content: the fixed header line, the attribution/title line and
\* the fenced body (lyrics.strip()).
format_lyrics_markdown(song_data) ==
    LET artist_name == ArtistName(song_data, <<" ", "/", " ">>)
    IN  [header |-> "# Original",
         heading |-> IF Truthy(artist_name)
                     THEN artist_name \o <<" ", "-", " ">> \o song_data.title
                     ELSE song_data.title,
         fenced |-> Strip(song_data.lyrics, {" ", "\t", "\n"})]

\* ------------------------------------------------------------- the site

\* The texts the modelled site serves.
T_Saginu == <<"C_S", "c_a", "c_g", "c_y", "c_n", "c_u">>
T_Radik == <<"C_R", "c_a", "c_d", "c_i", "c_k">>
T_San == <<"C_S", "c_a", "c_n">>
T_Line1 == <<"c_a", "c_n", "\n", "c_u">>
T_Line2 == <<"c_k", "c_a">>

\* base_url of main, and an item link: urljoin(base_url, href) for an absolute
\* path keeps scheme and host of the base and replaces its path.
Site == "https://erlar.ru/asongs"
Origin(base) == IF base = Site THEN "https://erlar.ru" ELSE base
NodeHref(n) == <<"/node/", n>>
urljoin(base, href) == <<Origin(base)>> \o href

\* A listing page is the sequence of the elements '.views-field-title a'
\* selects: the link's href (NULL without one), its text, whether it sits in a
\* table row and that row's music and words cells (NULL without the cell).
ListingRow(href, text, musician, songwriter) ==
    [href |-> href, text |-> text, in_row |-> TRUE,
     musician |-> musician, songwriter |-> songwriter]

\* An entry's row.  The site serves item 1 in two versions over time (its
\* metadata was edited), any other item in one.
EntryRow(n, v) ==
    IF v = 1 \/ n # 1
    THEN ListingRow(Some(NodeHref(n)), <<" ">> \o T_Saginu, Some(T_Radik), NULL)
    ELSE ListingRow(Some(NodeHref(n)), T_San, NULL, Some(T_Radik))

\* Rows a catalog page carries besides its entries: a link without href, a link
\* that is no item link, an item link with a blank title.
DecorativeRows ==
    << ListingRow(NULL, T_San, NULL, NULL),
       ListingRow(Some(<<"/taxonomy/", 7>>), T_San, NULL, NULL),
       ListingRow(Some(NodeHref(0)), <<" ", " ">>, NULL, NULL) >>

\* The catalog has two items.  Page p lists item 1 (p even) or item 2 (p odd)
\* and, after the first page, item 1 again (an entry that shows on several
\* pages, or twice on one).
ListingPage(p, v) ==
    <<DecorativeRows[1], EntryRow((p % 2) + 1, v), DecorativeRows[2]>>
        \o (IF p > 0 THEN <<EntryRow(1, v)>> ELSE <<>>)
        \o <<DecorativeRows[3]>>

ListingVersions == {1, 2}

\* An item page: the h1.title text, the div.songinfo block with its .composer
\* and .autor links, and the children of the .song block (each NULL if absent).
\* A child is a p of some class, or lies inside a fivestar form/div.
SongChild(tag, class, in_fivestar, text) ==
    [tag |-> tag, class |-> class, in_fivestar |-> in_fivestar, text |-> text]

PageFull ==
    [h1 |-> Some(T_Saginu),
     songinfo |-> Some([composer |-> Some(T_Radik), autor |-> NULL]),
     song |-> Some(<< SongChild("p", "rate", TRUE, T_San),
                      SongChild("p", "line_one", FALSE, T_Line1),
                      SongChild("p", "line_two", FALSE, T_Line2) >>)]

PageNoTitle ==
    [h1 |-> NULL, songinfo |-> NULL,
     song |-> Some(<< SongChild("p", "line_one", FALSE, T_Line2) >>)]

PageNoSong ==
    [h1 |-> Some(T_San), songinfo |-> Some([composer |-> NULL, autor |-> NULL]),
     song |-> NULL]

PageNoLines ==
    [h1 |-> Some(T_San), songinfo |-> NULL,
     song |-> Some(<< SongChild("p", "line_one", TRUE, T_Line1),
                      SongChild("p", "note", FALSE, T_Line2) >>)]

ItemPages == {PageFull, PageNoTitle, PageNoSong, PageNoLines}

\* ------------------------------------------------------------ Extractor

\* get_text(strip=True) of an element holding one string.
get_text(text) == Strip(text, {" ", "\t", "\n"})

OptText(cell) == IF cell = NULL THEN <<>> ELSE get_text(cell[1])

RECURSIVE ExtractUntitled(_, _)
\* An extraction without its test of the title: if title is left out.
ExtractUntitled(html_content, base_url) ==
    IF html_content = <<>> THEN <<>>
    ELSE LET link == Head(html_content)
             rest == ExtractUntitled(Tail(html_content), base_url)
         IN  IF link.href # NULL /\ link.href[1][1] = "/node/"
             THEN << [url |-> urljoin(base_url, link.href[1]),
                      title |-> get_text(link.text),
                      musician |-> IF link.in_row THEN OptText(link.musician)
                                   ELSE <<>>,
                      songwriter |-> IF link.in_row THEN OptText(link.songwriter)
                                     ELSE <<>>] >> \o rest
             ELSE rest

RECURSIVE extract_songs_from_page(_, _)
\* for link in song_links: a link with an href that starts with /node/ and a
\* title that is not empty after stripping gives one record, appended in the
\* order of the links; any other link gives none.
extract_songs_from_page(html_content, base_url) ==
    IF html_content = <<>> THEN <<>>
    ELSE LET link == Head(html_content)
             rest == extract_songs_from_page(Tail(html_content), base_url)
             title == get_text(link.text)
         IN  IF link.href # NULL /\ link.href[1][1] = "/node/" /\ Truthy(title)
             THEN << [url |-> urljoin(base_url, link.href[1]),
                      title |-> title,
                      musician |-> IF link.in_row THEN OptText(link.musician)
                                   ELSE <<>>,
                      songwriter |-> IF link.in_row THEN OptText(link.songwriter)
                                     ELSE <<>>] >> \o rest
             ELSE rest

RECURSIVE JoinLines(_)
\* '\n\n'.join(lyric_lines)
JoinLines(lines) ==
    IF lines = <<>> THEN <<>>
    ELSE IF Len(lines) = 1 THEN lines[1]
    ELSE lines[1] \o <<"\n", "\n">> \o JoinLines(Tail(lines))

RECURSIVE LyricLines(_)
\* The texts of the p.line_one / p.line_two left after the fivestar blocks are
\* decomposed.
LyricLines(children) ==
    IF children = <<>> THEN <<>>
    ELSE LET c == Head(children)
         IN  (IF c.tag = "p" /\ c.class \in {"line_one", "line_two"}
                    /\ ~c.in_fivestar
              THEN <<get_text(c.text)>> ELSE <<>>) \o LyricLines(Tail(children))

extract_lyrics_from_song_page(html_content, song_url) ==
    [title |-> OptText(html_content.h1),
     songwriter |-> IF html_content.songinfo = NULL THEN <<>>
                    ELSE OptText(html_content.songinfo[1].autor),
     musician |-> IF html_content.songinfo = NULL THEN <<>>
                  ELSE OptText(html_content.songinfo[1].composer),
     lyrics |-> IF html_content.song = NULL THEN <<>>
                ELSE JoinLines(LyricLines(html_content.song[1])),
     url |-> song_url]

\* --------------------------------------------------------- Record Store

\* A plain INSERT into a table without the UNIQUE constraint on url.
InsertAlways(rows, song, now) ==
    Append(rows, [id |-> Len(rows) + 1,
                  url |-> song.url,
                  title |-> song.title,
                  musician |-> song.musician,
                  songwriter |-> song.songwriter,
                  status |-> "pending",
                  created_at |-> now,
                  processed_at |-> NULL,
                  lyrics |-> NULL,
                  filename |-> NULL])

\* INSERT OR REPLACE: the row that holds the url is overwritten by the new one.
InsertOrReplace(rows, song, now) ==
    IF \E i \in 1..Len(rows) : rows[i].url = song.url
    THEN [i \in 1..Len(rows) |->
             IF rows[i].url = song.url
             THEN [id |-> rows[i].id,
                   url |-> song.url,
                   title |-> song.title,
                   musician |-> song.musician,
                   songwriter |-> song.songwriter,
                   status |-> "pending",
                   created_at |-> now,
                   processed_at |-> NULL,
                   lyrics |-> NULL,
                   filename |-> NULL]
             ELSE rows[i]]
    ELSE InsertAlways(rows, song, now)

\* INSERT OR IGNORE INTO songs (url, title, musician, songwriter): a row whose
\* url is in the table is ignored (url TEXT UNIQUE); a new row takes the next
\* AUTOINCREMENT id and the column defaults.
InsertOrIgnore(rows, song, now) ==
    IF \E i \in 1..Len(rows) : rows[i].url = song.url
    THEN rows
    ELSE Append(rows, [id |-> Len(rows) + 1,
                       url |-> song.url,
                       title |-> song.title,
                       musician |-> song.musician,
                       songwriter |-> song.songwriter,
                       status |-> "pending",
                       created_at |-> now,
                       processed_at |-> NULL,
                       lyrics |-> NULL,
                       filename |-> NULL])

RECURSIVE InsertAll(_, _, _)
\* for song in page_songs: cursor.execute(INSERT OR IGNORE ...)
InsertAll(rows, page_songs, now) ==
    IF page_songs = <<>> THEN rows
    ELSE InsertAll(InsertOrIgnore(rows, Head(page_songs), now), Tail(page_songs), now)

\* An UPDATE to failed that also stamps processed_at.
MarkFailedStamped(rows, song_id) ==
    [i \in 1..Len(rows) |->
        IF rows[i].id = song_id
        THEN [rows[i] EXCEPT !.status = "failed", !.processed_at = Some(0)]
        ELSE rows[i]]

\* UPDATE songs SET status = "failed" WHERE id = ?
MarkFailed(rows, song_id) ==
    [i \in 1..Len(rows) |->
        IF rows[i].id = song_id THEN [rows[i] EXCEPT !.status = "failed"]
        ELSE rows[i]]

\* An UPDATE to processed that also sets created_at = CURRENT_TIMESTAMP.
MarkProcessedRestamps(rows, song_id, lyrics, filename, now) ==
    [i \in 1..Len(rows) |->
        IF rows[i].id = song_id
        THEN [rows[i] EXCEPT !.status = "processed", !.processed_at = Some(now),
                             !.lyrics = Some(lyrics), !.filename = Some(filename),
                             !.created_at = now]
        ELSE rows[i]]

\* An UPDATE to processed without its WHERE id = ?.
MarkProcessedAll(rows, song_id, lyrics, filename, now) ==
    [i \in 1..Len(rows) |->
        [rows[i] EXCEPT !.status = "processed", !.processed_at = Some(now),
                        !.lyrics = Some(lyrics), !.filename = Some(filename)]]

\* An UPDATE to processed that leaves filename out of its SET list.
MarkProcessedNoName(rows, song_id, lyrics, filename, now) ==
    [i \in 1..Len(rows) |->
        IF rows[i].id = song_id
        THEN [rows[i] EXCEPT !.status = "processed", !.processed_at = Some(now),
                             !.lyrics = Some(lyrics)]
        ELSE rows[i]]

\* UPDATE songs SET status = "processed", processed_at = CURRENT_TIMESTAMP,
\* lyrics = ?, filename = ? WHERE id = ?
MarkProcessed(rows, song_id, lyrics, filename, now) ==
    [i \in 1..Len(rows) |->
        IF rows[i].id = song_id
        THEN [rows[i] EXCEPT !.status = "processed", !.processed_at = Some(now),
                             !.lyrics = Some(lyrics), !.filename = Some(filename)]
        ELSE rows[i]]

\* A SELECT * FROM songs without its WHERE status = "pending".
WherePendingAny(rows) == rows

RECURSIVE WherePending(_)
\* SELECT * FROM songs WHERE status = "pending", in rowid order.
WherePending(rows) ==
    IF rows = <<>> THEN <<>>
    ELSE (IF Head(rows).status = "pending" THEN <<Head(rows)>> ELSE <<>>)
             \o WherePending(Tail(rows))

\* A SELECT that leaves its LIMIT out.
LimitIgnored(rows, n) == rows

\* A LIMIT that keeps the last n rows of the result.
LimitFromEnd(rows, n) ==
    SubSeq(rows, (IF n < Len(rows) THEN Len(rows) - n ELSE 0) + 1, Len(rows))

\* ... LIMIT n
Limit(rows, n) == SubSeq(rows, 1, IF n < Len(rows) THEN n ELSE Len(rows))

\* A count without its WHERE status = "pending".
CountAll(rows) == Len(rows)

\* get_pending_count: SELECT COUNT(*) FROM songs WHERE status = "pending"
get_pending_count(rows) == Len(WherePending(rows))

\* ----------------------------------------------------------------- state

VARIABLES
    table_exists,   \* songs.db holds the songs table
    db,             \* the committed rows of songs, in rowid order
    files,          \* the output directory tat/: file name -> content
    clock,          \* CURRENT_TIMESTAMP
    dl,             \* the running download_songs.py process, if any
    ft,             \* its call of get_page_content, if any
    bp,             \* the running batch_process.py process, if any
    interrupted,    \* history: a Processor was killed and none has started since
    translated,     \* the directory translated/: file -> the names in its headings
    seen_file,      \* .normalize_names_seen.json: NULL, or the pairs it lists
    nn              \* the running normalize_names.py process, if any

\* What download_songs.py and batch_process.py work on, and what
\* normalize_names.py works on.
pipeline == <<table_exists, db, files, clock, dl, ft, bp, interrupted>>
normalizer == <<translated, seen_file, nn>>

vars == <<table_exists, db, files, clock, dl, ft, bp, interrupted,
          translated, seen_file, nn>>

\* No download_songs.py process.
DlOff ==
    [pc |-> "off", collect |-> FALSE, process |-> FALSE, max_pages |-> 0,
     limit |-> 0, test_mode |-> FALSE, conn |-> <<>>, page_num |-> 0,
     page_songs |-> <<>>, pending_songs |-> <<>>, i |-> 0, song_data |-> NULL,
     filename |-> NULL, successful_downloads |-> 0, failed_downloads |-> 0,
     failing |-> {}, resumed |-> FALSE, rc |-> 0]

\* No call of get_page_content.  A call counts its session.get calls, its
\* pre-request sleeps and its backoff sleeps, and lists them in the order they
\* happen (events).
FtOff ==
    [pc |-> "off", url |-> <<>>, max_retries |-> 0, attempt |-> 0,
     result |-> NULL, error |-> "none", requests |-> 0, delays |-> 0,
     backoffs |-> 0, events |-> <<>>]

\* No batch_process.py process.  Besides the variables of process_batch a run
\* keeps history: how many records left pending in its batches that ended with
\* exit code 0 (left_ok) and in its other batches (left_lost), and whether a
\* batch that ended with exit code 0 had found fewer than batch_size pending
\* records (short).
BpOff ==
    [pc |-> "off", batch_size |-> 0, max_batches |-> 0, batch_num |-> 0,
     total_processed |-> 0, pending_count |-> 0, started |-> 0,
     stop |-> "none", rc |-> 0, left_ok |-> 0, left_lost |-> 0,
     short |-> FALSE]

\* No normalize_names.py process.
NnOff ==
    [pc |-> "off", dry_run |-> FALSE, auto_only |-> FALSE, ratio |-> <<>>,
     all_names |-> <<>>, staged_names |-> {}, seen_pairs |-> {},
     new_pairs |-> <<>>, k |-> 0, auto_merged |-> 0, manual_review |-> 0]

Init ==
    /\ table_exists = FALSE
    /\ db = <<>>
    /\ files = <<>>
    /\ clock = 0
    /\ dl = DlOff
    /\ ft = FtOff
    /\ bp = BpOff
    /\ interrupted = FALSE
    /\ translated = <<>>
    /\ seen_file = NULL
    /\ nn = NnOff

\* -------------------------------------------------------------- Fetcher

\* What the site can answer a GET of url with: a catalog page in one of its
\* versions, or one of the item pages.
PageUrl(base_url, page_num) == <<base_url, "?page=", page_num>>
Served(url) ==
    IF url[2] = "?page="
    THEN {ListingPage(url[3], v) : v \in ListingVersions}
    ELSE ItemPages

\* get_page_content(url, session, max_retries) is entered: the for loop over
\* range(max_retries) runs no iteration when max_retries is 0, and the
\* function then returns None.
FetchCall(url, max_retries) ==
    [FtOff EXCEPT !.pc = IF max_retries > 0 THEN "attempt" ELSE "returned",
                  !.url = url, !.max_retries = max_retries]

\* An except clause that tests attempt < max_retries.
AfterFailureOneMore(f) ==
    IF f.attempt < f.max_retries
    THEN [f EXCEPT !.attempt = @ + 1, !.backoffs = @ + 1,
                   !.events = Append(@, "backoff")]
    ELSE [f EXCEPT !.pc = "returned", !.result = NULL]

\* An except clause that re-raises after the last attempt.
AfterFailureRaises(f) ==
    IF f.attempt < f.max_retries - 1
    THEN [f EXCEPT !.attempt = @ + 1, !.backoffs = @ + 1,
                   !.events = Append(@, "backoff")]
    ELSE [f EXCEPT !.pc = "raised"]

\* An except clause that sleeps the backoff after every failed attempt.
AfterFailureAlwaysSleeps(f) ==
    IF f.attempt < f.max_retries - 1
    THEN [f EXCEPT !.attempt = @ + 1, !.backoffs = @ + 1,
                   !.events = Append(@, "backoff")]
    ELSE [f EXCEPT !.pc = "returned", !.result = NULL, !.backoffs = @ + 1,
                   !.events = Append(@, "backoff")]

\* The except clause, after an attempt raised requests.RequestException: the
\* backoff sleep and the next iteration, or None after the last attempt.
AfterFailure(f) ==
    IF f.attempt < f.max_retries - 1
    THEN [f EXCEPT !.attempt = @ + 1, !.backoffs = @ + 1,
                   !.events = Append(@, "backoff")]
    ELSE [f EXCEPT !.pc = "returned", !.result = NULL]

\* One iteration of the loop: the pre-request sleep, the user agent update,
\* session.get(url, timeout=8), raise_for_status(), return response.text.
\* The request succeeds, raises a requests.RequestException (handled), or raises
\* an exception of another class, which the except clause does not catch.
\* The call frames the iteration can end in.
Attempt(f) ==
    LET g == [f EXCEPT !.delays = @ + 1, !.requests = @ + 1,
                       !.events = @ \o <<"delay", "request">>]
    IN  {[g EXCEPT !.pc = "returned", !.result = Some(page), !.error = "none"] :
            page \in Served(f.url)}
        \cup {AfterFailure([g EXCEPT !.error = "RequestException"])}
        \cup {[g EXCEPT !.pc = "raised", !.error = "other"]}

RECURSIVE Finish(_)
\* The frames a call can end in, from frame f on.
Finish(f) ==
    IF f.pc = "attempt" THEN UNION {Finish(g) : g \in Attempt(f)} ELSE {f}

\* The ways a call of get_page_content can end: returned (with the page, or
\* None) or raised.
get_page_content(url, max_retries) == Finish(FetchCall(url, max_retries))

\* The Fetcher on its own, one loop iteration at a time: a caller calls
\* get_page_content with some url and some max_retries.
FetcherCall ==
    /\ ft.pc = "off" /\ dl.pc = "off" /\ bp.pc = "off"
    /\ \E url \in {PageUrl(Site, p) : p \in 0..1}
                    \cup {urljoin(Site, NodeHref(n)) : n \in 1..2},
          max_retries \in 0..MaxRetries :
          ft' = FetchCall(url, max_retries)
    /\ UNCHANGED <<table_exists, db, files, clock, dl, bp, interrupted, normalizer>>

FetchAttempt ==
    /\ ft.pc = "attempt"
    /\ ft' \in Attempt(ft)
    /\ UNCHANGED <<table_exists, db, files, clock, dl, bp, interrupted, normalizer>>

\* ------------------------------------------------ download_songs.py: main

\* An init_database that drops the table and creates it again.
InitDatabaseRecreates(exists, rows) == <<>>

\* init_database: CREATE TABLE IF NOT EXISTS songs, CREATE INDEX IF NOT EXISTS.
\* The rows of the table after it.
init_database(exists, rows) == IF exists THEN rows ELSE <<>>

\* An operator starts download_songs.py: --collect (or no mode flag) with
\* --start-page and --max-pages, or --process with --limit (0: not given) or
\* --test, or --collect --process over all the pages.
StartDownload ==
    /\ dl.pc = "off" /\ bp.pc = "off"
    /\ \E collect \in BOOLEAN, process \in BOOLEAN,
          max_pages \in 0..NumPages, limit \in 0..MaxLimit,
          test_mode \in BOOLEAN :
       \E start_page \in {p \in 0..max_pages : p < max_pages \/ p = 0} :
          /\ (collect \/ ~process) \/ (start_page = 0 /\ max_pages = 0)
          /\ (collect /\ process) => (start_page = 0 /\ max_pages = NumPages)
          /\ (process /\ ~collect) \/ (limit = 0 /\ ~test_mode)
          /\ test_mode => limit = 0
          /\ dl' = [DlOff EXCEPT !.pc = "main",
                                 !.collect = collect \/ ~process,
                                 !.process = process,
                                 !.page_num = start_page,
                                 !.max_pages = max_pages,
                                 !.limit = limit,
                                 !.test_mode = test_mode]
    /\ UNCHANGED <<table_exists, db, files, clock, ft, bp, interrupted, normalizer>>

\* main: output_dir.mkdir(exist_ok=True); init_database(); then the Collector
\* if asked for (or if no mode is), else the Processor.
Main ==
    /\ dl.pc = "main"
    /\ table_exists' = TRUE
    /\ db' = init_database(table_exists, db)
    /\ dl' = [dl EXCEPT !.pc = IF dl.collect THEN "collect_loop"
                               ELSE "process_select",
                        !.conn = db']
    /\ UNCHANGED <<files, clock, ft, bp, interrupted, normalizer>>

\* ------------------------------------------------------------- Collector

\* An exception get_page_content did not catch propagates through
\* collect_all_songs or process_songs and main: the process ends with a
\* traceback and exit code 1, and its open transaction is rolled back.
Crashed == [DlOff EXCEPT !.pc = "exit", !.rc = 1]

\* A skip that leaves the loop: break in the place of continue.
SkipPageStops(d) == [d EXCEPT !.page_num = d.max_pages]

\* if not page_content: continue, on to the next page index.
SkipPage(d) == [d EXCEPT !.page_num = @ + 1]

\* One iteration of for page_num in range(start_page, max_pages): the page is
\* fetched; a page that was not fetched is skipped; the entries of a fetched
\* page are inserted and the insertions committed.
CollectPage ==
    /\ dl.pc = "collect_loop" /\ dl.page_num < dl.max_pages
    /\ \E f \in get_page_content(PageUrl(Site, dl.page_num), DefaultMaxRetries) :
          IF f.pc = "raised"
          THEN /\ dl' = Crashed
               /\ ft' = f
               /\ db' = db
          ELSE IF f.result = NULL
          THEN /\ dl' = SkipPage(dl)
               /\ ft' = ft
               /\ db' = db
          ELSE LET page_songs == extract_songs_from_page(f.result[1], Site)
                   rows == InsertAll(dl.conn, page_songs, clock)
               IN  /\ dl' = [dl EXCEPT !.page_num = @ + 1,
                                       !.page_songs = page_songs, !.conn = rows]
                   /\ ft' = ft
                   /\ db' = rows
    /\ UNCHANGED <<table_exists, files, clock, bp, interrupted, normalizer>>

\* After the loop: the total is printed and the connection closed; main goes on
\* to the Processor if --process was given, and returns otherwise.
CollectEnd ==
    /\ dl.pc = "collect_loop" /\ dl.page_num >= dl.max_pages
    /\ dl' = IF dl.process
             THEN [dl EXCEPT !.pc = "process_select", !.page_num = 0,
                             !.max_pages = 0, !.page_songs = <<>>]
             ELSE [DlOff EXCEPT !.pc = "exit", !.rc = 0]
    /\ UNCHANGED <<table_exists, db, files, clock, ft, bp, interrupted, normalizer>>

\* ------------------------------------------------------------- Processor

\* The orders ORDER BY RANDOM() can give the rows.
Orders(rows) ==
    { [k \in 1..Len(rows) |-> rows[f[k]]] :
        f \in {g \in [1..Len(rows) -> 1..Len(rows)] :
                 \A a, b \in 1..Len(rows) : a # b => g[a] # g[b]} }

\* The results the SELECT of process_songs can give.
Selections(rows, limit, test_mode) ==
    IF test_mode
    THEN {Limit(o, TestSampleSize) : o \in Orders(WherePending(rows))}
    ELSE IF limit # 0
         THEN {Limit(WherePending(rows), limit)}
         ELSE {WherePending(rows)}

\* process_songs up to the loop: the connection, the SELECT and fetchall().
ProcessSelect ==
    /\ dl.pc = "process_select"
    /\ \E sel \in Selections(db, dl.limit, dl.test_mode) :
          dl' = [dl EXCEPT !.pc = "process_loop", !.conn = db,
                           !.pending_songs = sel, !.i = 1,
                           !.resumed = interrupted]
    /\ interrupted' = FALSE
    /\ UNCHANGED <<table_exists, db, files, clock, ft, bp, normalizer>>

\* A handler that marks the record failed and breaks out of the loop.
GiveUpBreaks(d) ==
    [d EXCEPT !.pc = "process_commit",
              !.conn = MarkFailed(d.conn, d.pending_songs[d.i].id),
              !.failed_downloads = @ + 1,
              !.failing = @ \cup {d.pending_songs[d.i].id},
              !.i = Len(d.pending_songs)]

\* The three places that give a record up: UPDATE ... status = "failed" and
\* failed_downloads += 1.
GiveUp(d) ==
    [d EXCEPT !.pc = "process_commit",
              !.conn = MarkFailed(d.conn, d.pending_songs[d.i].id),
              !.failed_downloads = @ + 1,
              !.failing = @ \cup {d.pending_songs[d.i].id}]

\* A test that takes any extracted body, empty or not.
NoLyricsNever(song_data) == FALSE

\* if not song_data['lyrics']
NoLyrics(song_data) == ~Truthy(song_data.lyrics)

\* A write error that is left to propagate.
OnWriteErrorAborts(d) == Crashed

\* except Exception as e, around the write and the UPDATE.
OnWriteError(d) == GiveUp(d)

\* The head of one iteration of for i, song in enumerate(pending_songs, 1): the
\* item page is fetched; no content or no lyrics gives the record up, else the
\* file name is generated.
ProcessFetch ==
    /\ dl.pc = "process_loop" /\ dl.i <= Len(dl.pending_songs)
    /\ \E f \in get_page_content(dl.pending_songs[dl.i].url, DefaultMaxRetries) :
          IF f.pc = "raised"
          THEN /\ dl' = Crashed
               /\ ft' = f
          ELSE IF f.result = NULL
          THEN /\ dl' = GiveUp(dl)
               /\ ft' = ft
          ELSE LET song_data == extract_lyrics_from_song_page(
                                    f.result[1], dl.pending_songs[dl.i].url)
               IN  /\ ft' = ft
                   /\ IF NoLyrics(song_data)
                      THEN dl' = [GiveUp(dl) EXCEPT !.song_data = Some(song_data)]
                      ELSE dl' = [dl EXCEPT !.pc = "process_write",
                                            !.song_data = Some(song_data),
                                            !.filename =
                                               Some(generate_filename(song_data))]
    /\ UNCHANGED <<table_exists, db, files, clock, bp, interrupted, normalizer>>

\* A loop that marks the record first and leaves the write for later.
ProcessWriteLater ==
    /\ dl.pc = "process_write"
    /\ dl' = [dl EXCEPT !.pc = "process_update"]
    /\ UNCHANGED <<table_exists, db, files, clock, ft, bp, interrupted, normalizer>>

\* A write that never overwrites: a name that is taken gets a prefix.
ProcessWriteFresh ==
    /\ dl.pc = "process_write"
    /\ LET name == dl.filename[1]
           fresh == IF name \in DOMAIN files THEN <<"copy", "_">> \o name ELSE name
           content == format_lyrics_markdown(dl.song_data[1])
       IN  \/ /\ files' = (fresh :> content) @@ files
              /\ dl' = [dl EXCEPT !.pc = "process_update"]
           \/ /\ files' = files
              /\ dl' = OnWriteError(dl)
    /\ UNCHANGED <<table_exists, db, clock, ft, bp, interrupted, normalizer>>

\* with open(file_path, 'w') as f: f.write(markdown_content).  The file is
\* written, or an exception is raised (open fails: no file is touched) and the
\* except clause gives the record up.
ProcessWrite ==
    /\ dl.pc = "process_write"
    /\ LET name == dl.filename[1]
           content == format_lyrics_markdown(dl.song_data[1])
       IN  \/ /\ files' = (name :> content) @@ files
              /\ dl' = [dl EXCEPT !.pc = "process_update"]
           \/ /\ files' = files
              /\ dl' = OnWriteError(dl)
    /\ UNCHANGED <<table_exists, db, clock, ft, bp, interrupted, normalizer>>

\* UPDATE songs SET status = "processed", ...; successful_downloads += 1.
ProcessUpdate ==
    /\ dl.pc = "process_update"
    /\ dl' = [dl EXCEPT !.pc = "process_commit",
                        !.conn = MarkProcessed(dl.conn, dl.pending_songs[dl.i].id,
                                     dl.song_data[1].lyrics, dl.filename[1], clock),
                        !.successful_downloads = @ + 1]
    /\ UNCHANGED <<table_exists, db, files, clock, ft, bp, interrupted, normalizer>>

\* A loop without its conn.commit().
ProcessCommitDeferred ==
    /\ dl.pc = "process_commit"
    /\ dl' = [dl EXCEPT !.pc = "process_loop", !.i = @ + 1,
                        !.song_data = NULL, !.filename = NULL]
    /\ UNCHANGED <<table_exists, db, files, clock, ft, bp, interrupted, normalizer>>

\* conn.commit(), and on to the next record.
ProcessCommit ==
    /\ dl.pc = "process_commit"
    /\ db' = dl.conn
    /\ dl' = [dl EXCEPT !.pc = "process_loop", !.i = @ + 1,
                        !.song_data = NULL, !.filename = NULL]
    /\ UNCHANGED <<table_exists, files, clock, ft, bp, interrupted, normalizer>>

\* After the loop: conn.close() and the report of the counts; main returns.
ProcessEnd ==
    /\ dl.pc = "process_loop" /\ dl.i > Len(dl.pending_songs)
    /\ dl' = [DlOff EXCEPT !.pc = "exit", !.rc = 0]
    /\ UNCHANGED <<table_exists, db, files, clock, ft, bp, interrupted, normalizer>>

\* The operator's process has ended.
Exit ==
    /\ dl.pc = "exit" /\ bp.pc = "off"
    /\ dl' = DlOff
    /\ ft' = FtOff
    /\ UNCHANGED <<table_exists, db, files, clock, bp, interrupted, normalizer>>

\* The process is in process_songs (or, started with --process alone, on its
\* way there).
InProcessor(d) ==
    d.pc \in {"process_select", "process_loop", "process_write",
              "process_update", "process_commit"}
        \/ (d.pc = "main" /\ ~d.collect)

\* The operator's process is killed (SIGKILL, Ctrl-C, power loss) at any point:
\* what it had not committed is rolled back.
Kill ==
    /\ dl.pc \notin {"off", "exit"} /\ bp.pc = "off"
    /\ dl' = DlOff
    /\ ft' = FtOff
    /\ interrupted' = (interrupted \/ InProcessor(dl))
    /\ UNCHANGED <<table_exists, db, files, clock, bp, normalizer>>

\* Time passes.
Tick ==
    /\ clock < MaxClock
    /\ clock' = clock + 1
    /\ UNCHANGED <<table_exists, db, files, dl, ft, bp, interrupted, normalizer>>

\* ------------------------------------------- batch_process.py: process_batch

\* An operator starts batch_process.py with --batch-size and --max-batches
\* (0: not given).
StartBatch ==
    /\ dl.pc = "off" /\ bp.pc = "off"
    /\ \E batch_size \in 1..MaxLimit, max_batches \in 0..MaxBatches :
          bp' = [BpOff EXCEPT !.pc = "loop", !.batch_size = batch_size,
                                !.max_batches = max_batches]
    /\ UNCHANGED <<table_exists, db, files, clock, dl, ft, interrupted, normalizer>>

\* The child process_batch runs: download_songs.py --process --limit batch_size.
Child(batch_size) ==
    [DlOff EXCEPT !.pc = "main", !.process = TRUE, !.limit = batch_size]

\* The head of the while loop: the max_batches test, get_pending_count (which
\* raises, uncaught, when songs.db has no songs table), the test for zero
\* pending, and subprocess.run starting the child (or failing to).
BatchLoop ==
    /\ bp.pc = "loop"
    /\ IF bp.max_batches # 0 /\ bp.batch_num >= bp.max_batches
       THEN /\ bp' = [bp EXCEPT !.pc = "finish", !.stop = "max_batches"]
            /\ dl' = dl
       ELSE IF ~table_exists
       THEN /\ bp' = [bp EXCEPT !.pc = "exit", !.stop = "raised", !.rc = 1]
            /\ dl' = dl
       ELSE IF get_pending_count(db) = 0
       THEN /\ bp' = [bp EXCEPT !.pc = "finish", !.stop = "none_pending",
                                 !.pending_count = 0]
            /\ dl' = dl
       ELSE \/ /\ bp' = [bp EXCEPT !.pc = "wait", !.started = @ + 1,
                                    !.pending_count = get_pending_count(db)]
               /\ dl' = Child(bp.batch_size)
            \/ /\ bp' = [bp EXCEPT !.pc = "finish", !.stop = "error",
                                    !.pending_count = get_pending_count(db)]
               /\ dl' = dl
    /\ UNCHANGED <<table_exists, db, files, clock, ft, interrupted, normalizer>>

\* A loop that leaves batch_num as it is after a successful batch.
BatchReturnedUncounted ==
    /\ bp.pc = "wait" /\ dl.pc = "exit"
    /\ bp' = IF dl.rc = 0
             THEN [bp EXCEPT !.pc = "loop",
                             !.total_processed = @ + bp.batch_size]
             ELSE [bp EXCEPT !.pc = "finish", !.stop = "failed"]
    /\ dl' = DlOff
    /\ ft' = FtOff
    /\ UNCHANGED <<table_exists, db, files, clock, interrupted, normalizer>>

\* A loop that goes on to the next iteration whatever the exit code.
BatchReturnedRetries ==
    /\ bp.pc = "wait" /\ dl.pc = "exit"
    /\ bp' = IF dl.rc = 0
             THEN [bp EXCEPT !.pc = "loop",
                             !.total_processed = @ + bp.batch_size,
                             !.batch_num = @ + 1]
             ELSE [bp EXCEPT !.pc = "loop", !.stop = "failed"]
    /\ dl' = DlOff
    /\ ft' = FtOff
    /\ UNCHANGED <<table_exists, db, files, clock, interrupted, normalizer>>

\* The records that left pending since the head of the loop counted them.
LeftPending(b) == b.pending_count - get_pending_count(db)

\* subprocess.run returns: exit code 0 counts the batch and, after
\* time.sleep(2), loops; any other exit code breaks.
BatchReturned ==
    /\ bp.pc = "wait" /\ dl.pc = "exit"
    /\ bp' = IF dl.rc = 0
             THEN [bp EXCEPT !.pc = "loop",
                             !.total_processed = @ + bp.batch_size,
                             !.batch_num = @ + 1,
                             !.left_ok = @ + LeftPending(bp),
                             !.short = @ \/ bp.pending_count < bp.batch_size]
             ELSE [bp EXCEPT !.pc = "finish", !.stop = "failed",
                             !.left_lost = @ + LeftPending(bp)]
    /\ dl' = DlOff
    /\ ft' = FtOff
    /\ UNCHANGED <<table_exists, db, files, clock, interrupted, normalizer>>

\* A timeout that gives up waiting and leaves the child running.
BatchInterruptedDetaches ==
    /\ bp.pc = "wait" /\ dl.pc # "exit"
    /\ \E why \in {"timeout", "interrupt"} :
          bp' = [bp EXCEPT !.pc = "finish", !.stop = why]
    /\ interrupted' = TRUE
    /\ UNCHANGED <<table_exists, db, files, clock, dl, ft, normalizer>>

\* A kill that lets the child's open transaction reach the database.
BatchInterruptedFlushes ==
    /\ bp.pc = "wait" /\ dl.pc # "exit"
    /\ \E why \in {"timeout", "interrupt"} :
          bp' = [bp EXCEPT !.pc = "finish", !.stop = why]
    /\ db' = IF dl.pc \in {"process_loop", "process_write", "process_update",
                           "process_commit"}
             THEN dl.conn ELSE db
    /\ dl' = DlOff
    /\ ft' = FtOff
    /\ interrupted' = TRUE
    /\ UNCHANGED <<table_exists, files, clock, normalizer>>

\* The 600 s timeout expires, or the operator presses Ctrl-C, while the child
\* runs: subprocess.run kills the child and waits for it, then raises
\* TimeoutExpired or KeyboardInterrupt; process_batch breaks.
BatchInterrupted ==
    /\ bp.pc = "wait" /\ dl.pc # "exit"
    /\ \E why \in {"timeout", "interrupt"} :
          bp' = [bp EXCEPT !.pc = "finish", !.stop = why,
                           !.left_lost = @ + LeftPending(bp)]
    /\ dl' = DlOff
    /\ ft' = FtOff
    /\ interrupted' = TRUE
    /\ UNCHANGED <<table_exists, db, files, clock, normalizer>>

\* The child is killed by something else (a signal, the memory limit): the
\* exit code subprocess.run reports is the negated signal number.
ChildDies ==
    /\ bp.pc = "wait" /\ dl.pc \notin {"off", "exit"}
    /\ dl' = [DlOff EXCEPT !.pc = "exit", !.rc = -9]
    /\ ft' = FtOff
    /\ interrupted' = TRUE
    /\ UNCHANGED <<table_exists, db, files, clock, bp, normalizer>>

\* After the loop: the three totals are printed and the script ends, with exit
\* code 0.
BatchFinish ==
    /\ bp.pc = "finish"
    /\ bp' = [bp EXCEPT !.pc = "exit", !.rc = 0]
    /\ UNCHANGED <<table_exists, db, files, clock, dl, ft, interrupted, normalizer>>

\* The operator's batch_process.py has ended.
BatchExit ==
    /\ bp.pc = "exit"
    /\ bp' = BpOff
    /\ UNCHANGED <<table_exists, db, files, clock, dl, ft, interrupted, normalizer>>

\* ------------------------------------------------- normalize_names.py

\* A person name is a token; NameOrder lists the names in the order sorted()
\* gives them.  A file of translated/ is a number (os.walk is taken to list
\* the files in this order), and its content is the set of names its headings
\* carry.
NameOrder == <<"Tukai", "Tukay", "Tuqay">>
Headings == {{"Tukai"}, {"Tukay"}, {"Tuqay"}, {"Tukai", "Tukay"}}
Directories == [1..MaxFiles -> Headings]

\* The ratios SequenceMatcher can give a pair of names, in percent, from the
\* highest down.
RatioLevels == <<96, 93, 90>>
Ratios == {RatioLevels[k] : k \in 1..Len(RatioLevels)}

\* extract_names_from_file: the names of the headings of a file.
extract_names_from_file(dir, filepath) == dir[filepath]

RECURSIVE FilesWith(_, _, _)
\* The files from k on whose headings carry name, in walk order.
FilesWith(dir, name, k) ==
    IF k > Len(dir) THEN <<>>
    ELSE (IF name \in extract_names_from_file(dir, k) THEN <<k>> ELSE <<>>)
             \o FilesWith(dir, name, k + 1)

\* collect_all_names: name -> the list of the files it appears in.
collect_all_names(dir) ==
    [name \in UNION {extract_names_from_file(dir, f) : f \in DOMAIN dir} |->
        FilesWith(dir, name, 1)]

\* get_staged_names: the names of the staged files that exist.
get_staged_names(dir, staged_files) ==
    UNION {extract_names_from_file(dir, f) : f \in staged_files \cap DOMAIN dir}

\* load_seen_pairs and save_seen_pairs: the set of pairs, read from and written
\* to the JSON file.
load_seen_pairs(file) == IF file = NULL THEN {} ELSE file[1]
save_seen_pairs(seen_pairs) == Some(seen_pairs)

RECURSIVE PairsOf(_)
\* for i, name1 in enumerate(names_list): for name2 in names_list[i + 1:]
PairsOf(names_list) ==
    IF Len(names_list) <= 1 THEN <<>>
    ELSE [k \in 1..(Len(names_list) - 1) |->
             <<Head(names_list), Tail(names_list)[k]>>]
         \o PairsOf(Tail(names_list))

\* The pairs two names can form, and the ratio tables over them.
NamePairs == {PairsOf(NameOrder)[k] : k \in 1..Len(PairsOf(NameOrder))}
RatioTables == [NamePairs -> Ratios]

RECURSIVE ByRatio(_, _)
\* similar_pairs.sort(key=lambda x: x[2], reverse=True): the pairs of the
\* highest ratio first, pairs of equal ratio in the order they had.
ByRatio(similar_pairs, levels) ==
    IF levels = <<>> THEN <<>>
    ELSE SelectSeq(similar_pairs, LAMBDA t : t[3] = Head(levels))
             \o ByRatio(similar_pairs, Tail(levels))

\* find_similar_names: the pairs of sorted names with a ratio of at least the
\* threshold, by descending ratio (a stable sort).
find_similar_names(all_names, ratio) ==
    LET names_list == SelectSeq(NameOrder, LAMBDA n : n \in DOMAIN all_names)
        pairs == PairsOf(names_list)
        triples == [k \in 1..Len(pairs) |->
                       <<pairs[k][1], pairs[k][2], ratio[pairs[k]]>>]
        similar_pairs ==
            SelectSeq(triples, LAMBDA t : t[3] >= SIMILARITY_THRESHOLD)
    IN  ByRatio(similar_pairs, RatioLevels)

\* count1 / count2 >= num / den, the quotient being infinite for count2 = 0.
RatioAtLeast(count1, count2, num, den) ==
    count2 = 0 \/ count1 * den >= num * count2

\* get_automated_decision: Some(<<keep_name, replace_name>>), or NULL (None).
get_automated_decision(name1, name2, all_names, staged_names, sim_ratio) ==
    LET count1 == Len(all_names[name1])
        count2 == Len(all_names[name2])
        name1_in_staged == name1 \in staged_names
        name2_in_staged == name2 \in staged_names
    IN  IF sim_ratio >= AUTO_MERGE_VERY_HIGH_SIMILARITY
        THEN IF count1 > count2 THEN Some(<<name1, name2>>)
             ELSE IF count2 > count1 THEN Some(<<name2, name1>>)
             ELSE IF name1_in_staged /\ ~name2_in_staged
                  THEN Some(<<name1, name2>>)
             ELSE IF name2_in_staged /\ ~name1_in_staged
                  THEN Some(<<name2, name1>>)
             ELSE Some(<<name1, name2>>)
        ELSE IF name1_in_staged /\ ~name2_in_staged /\ count1 >= count2
        THEN Some(<<name1, name2>>)
        ELSE IF name2_in_staged /\ ~name1_in_staged /\ count2 >= count1
        THEN Some(<<name2, name1>>)
        ELSE IF /\ count1 > count2
                /\ RatioAtLeast(count1, count2, AUTO_MERGE_MIN_DIFF_RATIO, 1)
                /\ count1 - count2 >= AUTO_MERGE_MIN_ABS_DIFF
        THEN Some(<<name1, name2>>)
        ELSE IF /\ count2 > count1
                /\ RatioAtLeast(count2, count1, AUTO_MERGE_MIN_DIFF_RATIO, 1)
                /\ count2 - count1 >= AUTO_MERGE_MIN_ABS_DIFF
        THEN Some(<<name2, name1>>)
        ELSE IF /\ count1 > count2 /\ RatioAtLeast(count1, count2, 3, 2)
                /\ name1_in_staged /\ ~name2_in_staged
        THEN Some(<<name1, name2>>)
        ELSE IF /\ count2 > count1 /\ RatioAtLeast(count2, count1, 3, 2)
                /\ name2_in_staged /\ ~name1_in_staged
        THEN Some(<<name2, name1>>)
        ELSE NULL

\* merge_names: each file listed for from_name whose headings carry from_name
\* is rewritten with to_name in its place; the directory after it.
merge_names(dir, names_dict, from_name, to_name) ==
    LET listed == IF from_name \in DOMAIN names_dict
                  THEN {names_dict[from_name][k] :
                            k \in 1..Len(names_dict[from_name])}
                  ELSE {}
    IN  [f \in DOMAIN dir |->
            IF f \in listed /\ from_name \in dir[f]
            THEN (dir[f] \ {from_name}) \cup {to_name}
            ELSE dir[f]]

\* all_names[keep_name].extend(all_names[replace_name]);
\* del all_names[replace_name]
Extend(all_names, keep_name, replace_name) ==
    [n \in DOMAIN all_names \ {replace_name} |->
        IF n = keep_name THEN all_names[keep_name] \o all_names[replace_name]
        ELSE all_names[n]]

\* A run that writes whatever --dry-run says.
WritesAlways(n) == TRUE

\* if not args.dry_run
Writes(n) == ~n.dry_run

\* An operator starts normalize_names.py, with or without --dry-run and
\* --auto-only.  main up to its loop: the names are collected, the staged names
\* read from git, the seen pairs loaded, the similar pairs found and those seen
\* before filtered out; without a new pair main returns.
NormalizeStart ==
    /\ nn.pc = "off"
    /\ \E dry_run \in BOOLEAN, auto_only \in BOOLEAN, ratio \in RatioTables,
          staged_files \in {{}, {1}} :
          LET all_names == collect_all_names(translated)
              seen_pairs == load_seen_pairs(seen_file)
              similar_pairs == find_similar_names(all_names, ratio)
              new_pairs ==
                  SelectSeq(similar_pairs,
                            LAMBDA t : /\ <<t[1], t[2]>> \notin seen_pairs
                                       /\ <<t[2], t[1]>> \notin seen_pairs)
          IN  nn' = [NnOff EXCEPT
                        !.pc = IF new_pairs = <<>> THEN "exit" ELSE "loop",
                        !.dry_run = dry_run, !.auto_only = auto_only,
                        !.ratio = ratio, !.all_names = all_names,
                        !.staged_names =
                            get_staged_names(translated, staged_files),
                        !.seen_pairs = seen_pairs,
                        !.new_pairs = new_pairs, !.k = 1]
    /\ UNCHANGED <<pipeline, translated, seen_file>>

\* What the operator can answer the prompts of a manual review with: skip,
\* merge keeping the first or the second name, merge with an invalid choice,
\* quit, end of input at the first prompt, end of input at the second.
Responses == {"skip", "keep1", "keep2", "invalid", "quit", "eof", "eof_choice"}

\* One iteration of for name1, name2, sim_ratio in new_pairs.
NormalizePair ==
    /\ nn.pc = "loop" /\ nn.k <= Len(nn.new_pairs)
    /\ LET name1 == nn.new_pairs[nn.k][1]
           name2 == nn.new_pairs[nn.k][2]
           sim_ratio == nn.new_pairs[nn.k][3]
           seen == [nn EXCEPT !.k = @ + 1,
                              !.seen_pairs = @ \cup {<<name1, name2>>}]
       IN  IF name1 \notin DOMAIN nn.all_names \/ name2 \notin DOMAIN nn.all_names
           THEN \* a name was merged in an earlier iteration
                /\ nn' = seen
                /\ UNCHANGED <<translated, seen_file>>
           ELSE LET action == get_automated_decision(
                                  name1, name2, nn.all_names, nn.staged_names,
                                  sim_ratio)
                IN  IF action # NULL
                    THEN \* automated merge
                         LET keep_name == action[1][1]
                             replace_name == action[1][2]
                         IN  /\ translated' =
                                   IF Writes(nn)
                                   THEN merge_names(translated, nn.all_names,
                                                    replace_name, keep_name)
                                   ELSE translated
                             /\ nn' = [seen EXCEPT
                                          !.auto_merged = @ + 1,
                                          !.all_names = Extend(@, keep_name,
                                                               replace_name)]
                             /\ seen_file' =
                                   IF Writes(nn)
                                   THEN save_seen_pairs(nn'.seen_pairs)
                                   ELSE seen_file
                    ELSE IF nn.auto_only
                    THEN /\ nn' = [nn EXCEPT !.k = @ + 1, !.manual_review = @ + 1]
                         /\ UNCHANGED <<translated, seen_file>>
                    ELSE IF nn.dry_run
                    THEN /\ nn' = [seen EXCEPT !.manual_review = @ + 1]
                         /\ UNCHANGED <<translated, seen_file>>
                    ELSE \E response \in Responses :
                         LET reviewed == [seen EXCEPT !.manual_review = @ + 1]
                             keep_name == IF response = "keep1" THEN name1
                                          ELSE name2
                             replace_name == IF response = "keep1" THEN name2
                                             ELSE name1
                         IN  CASE response \in {"skip", "invalid"} ->
                                   /\ nn' = reviewed
                                   /\ translated' = translated
                                   /\ seen_file' = save_seen_pairs(nn'.seen_pairs)
                               [] response \in {"keep1", "keep2"} ->
                                   /\ translated' =
                                         merge_names(translated, nn.all_names,
                                                     replace_name, keep_name)
                                   /\ nn' = [reviewed EXCEPT
                                                !.all_names =
                                                    Extend(@, keep_name,
                                                           replace_name)]
                                   /\ seen_file' = save_seen_pairs(nn'.seen_pairs)
                               [] response \in {"quit", "eof"} ->
                                   /\ nn' = [nn EXCEPT !.pc = "exit",
                                                       !.manual_review = @ + 1]
                                   /\ translated' = translated
                                   /\ seen_file' = save_seen_pairs(nn.seen_pairs)
                               [] response = "eof_choice" ->
                                   \* EOFError outside the try: a traceback
                                   /\ nn' = [nn EXCEPT !.pc = "exit",
                                                       !.manual_review = @ + 1]
                                   /\ UNCHANGED <<translated, seen_file>>
    /\ UNCHANGED pipeline

\* After the loop: the totals are printed and main returns.
NormalizeEnd ==
    /\ nn.pc = "loop" /\ nn.k > Len(nn.new_pairs)
    /\ nn' = [nn EXCEPT !.pc = "exit"]
    /\ UNCHANGED <<pipeline, translated, seen_file>>

\* The operator's normalize_names.py has ended.
NormalizeExit ==
    /\ nn.pc = "exit"
    /\ nn' = NnOff
    /\ UNCHANGED <<pipeline, translated, seen_file>>

\* The directory translated/ holds MaxFiles files, and the seen file is absent
\* or lists no pair or the first pair.
NormalizeInit ==
    /\ table_exists = FALSE
    /\ db = <<>>
    /\ files = <<>>
    /\ clock = 0
    /\ dl = DlOff
    /\ ft = FtOff
    /\ bp = BpOff
    /\ interrupted = FALSE
    /\ translated \in Directories
    /\ seen_file \in {NULL, Some({}), Some({<<NameOrder[1], NameOrder[2]>>})}
    /\ nn = NnOff

\* ------------------------------------- Extractor and Namer on their own

\* The links a listing page handed to extract_songs_from_page can carry: the
\* entries of items 1 and 2 and the decorative rows.
ListingLinks ==
    {EntryRow(1, 1), EntryRow(2, 1)} \cup {DecorativeRows[k] : k \in 1..3}

\* The listing pages of at most MaxRows links.
ListingPages == UNION {[1..n -> ListingLinks] : n \in 0..MaxRows}

\* The texts an item page can show as title, composer and author: none, a name,
\* a title, a title with a character no file name may hold.
ItemTexts == {<<>>, T_Radik, T_Saginu, T_San, <<"C_K", "c_a", ":", " ", "c_u">>}

\* What extract_lyrics_from_song_page can return for an item page with lyrics.
SongData ==
    {[title |-> t, songwriter |-> w, musician |-> m, lyrics |-> T_Line2,
      url |-> urljoin(Site, NodeHref(1))] :
        t \in ItemTexts, w \in ItemTexts, m \in ItemTexts}

\* A listing page was fetched and is about to be handed to the Extractor, or an
\* item page was extracted and is about to be handed to the Namer.
FunctionInit ==
    /\ table_exists = FALSE
    /\ db = <<>>
    /\ files = <<>>
    /\ clock = 0
    /\ bp = BpOff
    /\ interrupted = FALSE
    /\ translated = <<>>
    /\ seen_file = NULL
    /\ nn = NnOff
    /\ \/ /\ \E page \in ListingPages :
                ft = [FtOff EXCEPT !.pc = "returned", !.result = Some(page)]
          /\ dl = [DlOff EXCEPT !.pc = "extract"]
       \/ /\ ft = FtOff
          /\ \E song_data \in SongData :
                dl = [DlOff EXCEPT !.pc = "name", !.song_data = Some(song_data)]

\* page_songs = extract_songs_from_page(page_content, base_url)
ExtractListing ==
    /\ dl.pc = "extract"
    /\ dl' = [dl EXCEPT !.pc = "extracted",
                        !.page_songs = extract_songs_from_page(ft.result[1], Site)]
    /\ UNCHANGED <<table_exists, db, files, clock, ft, bp, interrupted, normalizer>>

\* filename = generate_filename(song_data)
NameArtifact ==
    /\ dl.pc = "name"
    /\ dl' = [dl EXCEPT !.pc = "named",
                        !.filename = Some(generate_filename(dl.song_data[1]))]
    /\ UNCHANGED <<table_exists, db, files, clock, ft, bp, interrupted, normalizer>>

\* ------------------------------------------------------- specifications

Next ==
    \/ StartDownload \/ Main
    \/ CollectPage \/ CollectEnd
    \/ ProcessSelect \/ ProcessFetch \/ ProcessWrite
    \/ ProcessUpdate \/ ProcessCommit \/ ProcessEnd
    \/ Exit \/ Kill \/ Tick
    \/ StartBatch \/ BatchLoop \/ BatchReturned \/ BatchInterrupted
    \/ ChildDies \/ BatchFinish \/ BatchExit

Spec == Init /\ [][Next]_vars

\* The Fetcher alone, with max_retries drawn from 0..MaxRetries.
FetcherNext == FetcherCall \/ FetchAttempt

FetcherSpec == Init /\ [][FetcherNext]_vars

\* The steps the running processes take by themselves, which the operating
\* system lets them take: every step but an operator's start of a program, a
\* kill, a timeout and the passing of time.
Running ==
    \/ Main \/ CollectPage \/ CollectEnd
    \/ ProcessSelect \/ ProcessFetch \/ ProcessWrite
    \/ ProcessUpdate \/ ProcessCommit \/ ProcessEnd \/ Exit
    \/ BatchLoop \/ BatchReturned \/ BatchFinish \/ BatchExit

\* Every step but the passing of time, which no step of the orchestrator or of
\* the loops reads.
UntimedNext ==
    \/ StartDownload \/ Main
    \/ CollectPage \/ CollectEnd
    \/ ProcessSelect \/ ProcessFetch \/ ProcessWrite
    \/ ProcessUpdate \/ ProcessCommit \/ ProcessEnd
    \/ Exit \/ Kill
    \/ StartBatch \/ BatchLoop \/ BatchReturned \/ BatchInterrupted
    \/ ChildDies \/ BatchFinish \/ BatchExit

\* A running process is not starved.
FairSpec == Init /\ [][UntimedNext]_vars /\ WF_vars(Running)

\* The Extractor and the Namer, each applied once to an input of FunctionInit.
FunctionNext == ExtractListing \/ NameArtifact

FunctionSpec == FunctionInit /\ [][FunctionNext]_vars

\* normalize_names.py, run any number of times over a directory.
NormalizeNext ==
    NormalizeStart \/ NormalizePair \/ NormalizeEnd \/ NormalizeExit

NormalizeSpec == NormalizeInit /\ [][NormalizeNext]_vars

\* ------------------------------------------------------------ properties

Terminal(status) == status \in {"processed", "failed"}

Ids(rows) == {rows[i].id : i \in 1..Len(rows)}

PendingIds(rows) ==
    {rows[i].id : i \in {j \in 1..Len(rows) : rows[j].status = "pending"}}

RowOf(rows, id) == rows[CHOOSE i \in 1..Len(rows) : rows[i].id = id]

Min(a, b) == IF a < b THEN a ELSE b

Max0(a) == IF a > 0 THEN a ELSE 0

\* The download process was killed in the step, or had ended before it.
Killed(d) == d.pc = "off" \/ (d.pc = "exit" /\ d.rc = -9)

\* The step is the SELECT of process_songs.
Selecting == dl.pc = "process_select" /\ dl'.pc = "process_loop"

\* The record of the current loop iteration.
Current(d) == d.pending_songs[d.i].id

\* The committed rows that are terminal are the same rows after the step.
TerminalRowsKept ==
    \A i \in 1..Len(db) :
        Terminal(db[i].status) => (i <= Len(db') /\ db'[i] = db[i])

\* C1: the status of a committed record only moves from pending to processed or
\* to failed: a processed or failed record keeps its status in every step of
\* every Collector run, Processor run and orchestrator batch, and a processing
\* pass selects, and attempts, only records that are pending in the store.
C1_Step ==
    /\ \A i \in 1..Len(db) :
          /\ i <= Len(db') /\ db'[i].id = db[i].id
          /\ Terminal(db[i].status) => db'[i].status = db[i].status
          /\ db'[i].status # db[i].status => Terminal(db'[i].status)
    /\ Selecting => Ids(dl'.pending_songs) \subseteq PendingIds(db)
    /\ (dl.pc = "process_loop" /\ dl'.pc \in {"process_write", "process_commit"})
          => Current(dl) \in PendingIds(db)

C1_StatusMonotone == [][C1_Step]_vars

\* A pass has selected its records, and the store holds a terminal record, which
\* the pass left out.
C1_Witness ==
    /\ dl.pc = "process_loop" /\ dl.i = 1 /\ dl.pending_songs # <<>>
    /\ \E i \in 1..Len(db) :
          Terminal(db[i].status) /\ db[i].id \notin Ids(dl.pending_songs)

\* C2 as stated: after an interruption, terminal records keep status, lyrics,
\* filename and processed_at, and the restarted run selects exactly the records
\* that are pending.
C2_OriginalStep ==
    /\ TerminalRowsKept
    /\ (Selecting /\ interrupted) => Ids(dl'.pending_songs) = PendingIds(db)

C2_Step ==
    /\ TerminalRowsKept
    /\ (Selecting /\ interrupted) =>
          LET sel == dl'.pending_songs
              pending == PendingIds(db)
          IN  /\ Ids(sel) \subseteq pending
              /\ Cardinality(Ids(sel)) = Len(sel)
              /\ \A k \in 1..Len(sel) : sel[k] = RowOf(db, sel[k].id)
              /\ (dl.limit = 0 \/ dl.test_mode) => Ids(sel) = pending
              /\ (dl.limit # 0 /\ ~dl.test_mode) =>
                    /\ Len(sel) = Min(dl.limit, Cardinality(pending))
                    /\ \A a \in Ids(sel), b \in pending \ Ids(sel) : a < b
                    /\ \A k \in 1..Len(sel) - 1 : sel[k].id < sel[k + 1].id
    /\ (dl.resumed /\ dl.pc = "process_loop" /\ dl'.pc = "exit" /\ dl'.rc = 0) =>
          \A id \in Ids(dl.pending_songs) : Terminal(RowOf(db, id).status)

Metadata(rows) ==
    [i \in 1..Len(rows) |-> <<rows[i].url, rows[i].title,
                              rows[i].musician, rows[i].songwriter>>]

\* C3: inserting the entries of a listing twice leaves the store with as many
\* records, with the same title, musician and songwriter, as inserting them
\* once, for every catalog page the site can serve and every reachable store.
C3_IdempotentDiscovery ==
    \A p \in 0..(NumPages - 1), v \in ListingVersions :
        LET page_songs == extract_songs_from_page(ListingPage(p, v), Site)
            once == InsertAll(db, page_songs, clock)
            twice == InsertAll(once, page_songs, MaxClock)
        IN  /\ Len(twice) = Len(once)
            /\ Metadata(twice) = Metadata(once)

\* The Collector has inserted a listing all of whose entries an earlier run had
\* inserted, one of them processed or failed since.
C3_Witness ==
    /\ dl.pc = "collect_loop" /\ dl.page_songs # <<>>
    /\ \A k \in 1..Len(dl.page_songs) :
          \E i \in 1..Len(db) :
              /\ db[i].url = dl.page_songs[k].url
              /\ db[i].title = dl.page_songs[k].title
              /\ db[i].created_at < clock
    /\ \E k \in 1..Len(dl.page_songs), i \in 1..Len(db) :
          db[i].url = dl.page_songs[k].url /\ Terminal(db[i].status)

\* C4: a step of the Collector leaves every record of the store as it is, in
\* every column, whatever the listing it inserts says of that url, and the store
\* never holds two records with the same url.
C4_Step ==
    /\ dl.pc = "collect_loop" =>
          \A i \in 1..Len(db) : i <= Len(db') /\ db'[i] = db[i]
    /\ \A i, j \in 1..Len(db') : i # j => db'[i].url # db'[j].url

C4_RediscoveryFrame == [][C4_Step]_vars

\* The Collector has inserted a listing that gives a processed record's url
\* another title and another songwriter.
C4_Witness ==
    /\ dl.pc = "collect_loop"
    /\ \E k \in 1..Len(dl.page_songs), i \in 1..Len(db) :
          /\ db[i].url = dl.page_songs[k].url
          /\ db[i].title # dl.page_songs[k].title
          /\ db[i].songwriter # dl.page_songs[k].songwriter
          /\ db[i].status = "processed"

\* C5: when the loop of process_songs has run over its N selected records, of
\* which those in F failed, each record of F is failed in the store, each other
\* selected record is processed, none is pending, and the counts are
\* successful_downloads = N - |F| and failed_downloads = |F|.
C5_BatchOutcome ==
    (dl.pc = "process_loop" /\ dl.i > Len(dl.pending_songs)) =>
        LET N == Len(dl.pending_songs)
            F == dl.failing
        IN  /\ F \subseteq Ids(dl.pending_songs)
            /\ \A id \in Ids(dl.pending_songs) :
                  RowOf(db, id).status =
                      IF id \in F THEN "failed" ELSE "processed"
            /\ dl.successful_downloads = N - Cardinality(F)
            /\ dl.failed_downloads = Cardinality(F)

\* A run over two records has ended; the first failed and the second did not.
C5_Witness ==
    /\ dl.pc = "process_loop" /\ dl.i > Len(dl.pending_songs)
    /\ Len(dl.pending_songs) >= 2
    /\ dl.pending_songs[1].id \in dl.failing
    /\ dl.pending_songs[2].id \notin dl.failing
    /\ RowOf(db, dl.pending_songs[2].id).status = "processed"

\* The rows with the record id marked failed and nothing else changed: what
\* the Processor does to the store when the fetch fails.
FailedAsForFetch(rows, id) ==
    [i \in 1..Len(rows) |->
        IF rows[i].id = id THEN [rows[i] EXCEPT !.status = "failed"] ELSE rows[i]]

\* The item page fetched for the current record gave no lyrics.
EmptyBody(d) == d.song_data # NULL /\ d.song_data[1].lyrics = <<>>

\* C6: when the page fetched for a record gives an empty body, the step marks
\* the record failed as a failed fetch does, counts it as failed, writes no
\* file and leaves lyrics and filename NULL; the next step of the run commits
\* that and goes on to the next record.
C6_Step ==
    /\ (dl.pc = "process_loop" /\ EmptyBody(dl')) =>
          /\ dl'.pc = "process_commit"
          /\ files' = files
          /\ dl'.conn = FailedAsForFetch(dl.conn, Current(dl))
          /\ RowOf(dl'.conn, Current(dl)).lyrics = NULL
          /\ RowOf(dl'.conn, Current(dl)).filename = NULL
          /\ dl'.failed_downloads = dl.failed_downloads + 1
          /\ dl'.successful_downloads = dl.successful_downloads
          /\ dl'.i = dl.i /\ dl'.pending_songs = dl.pending_songs
    /\ (EmptyBody(dl) /\ dl' # dl /\ ~Killed(dl')) =>
          /\ dl.pc = "process_commit" /\ dl'.pc = "process_loop"
          /\ dl'.i = dl.i + 1 /\ dl'.pending_songs = dl.pending_songs
          /\ files' = files
          /\ RowOf(db', Current(dl)).status = "failed"
          /\ RowOf(db', Current(dl)).lyrics = NULL
          /\ RowOf(db', Current(dl)).filename = NULL

C6_EmptyBodyFails == [][C6_Step]_vars

\* An item page without lyrics was fetched for the first of two selected
\* records, and the record was marked failed.
C6_Witness ==
    /\ dl.pc = "process_commit" /\ EmptyBody(dl)
    /\ dl.i < Len(dl.pending_songs)
    /\ RowOf(dl.conn, Current(dl)).status = "failed"

\* The write of the current record's file failed.
WriteFailed(d) ==
    /\ d.pc = "process_commit" /\ d.filename # NULL
    /\ RowOf(d.conn, Current(d)).status = "failed"

\* C7: the write step either writes the file or marks the record failed, and
\* in neither case ends the run; after a failed write the next step of the run
\* commits the failed status and goes on to the next record.
C7_Step ==
    /\ (dl.pc = "process_write" /\ dl' # dl /\ ~Killed(dl')) =>
          \/ /\ dl'.pc = "process_update"
             /\ dl.filename[1] \in DOMAIN files'
          \/ /\ WriteFailed(dl')
             /\ dl'.i = dl.i /\ dl'.pending_songs = dl.pending_songs
             /\ dl'.failed_downloads = dl.failed_downloads + 1
    /\ (WriteFailed(dl) /\ dl' # dl /\ ~Killed(dl')) =>
          /\ dl'.pc = "process_loop"
          /\ dl'.i = dl.i + 1 /\ dl'.pending_songs = dl.pending_songs
          /\ RowOf(db', Current(dl)).status = "failed"

C7_WriteFailureFails == [][C7_Step]_vars

\* The write for the first of two selected records failed, and the record was
\* marked failed.
C7_Witness ==
    /\ WriteFailed(dl)
    /\ dl.i < Len(dl.pending_songs)
    /\ dl.filename[1] \notin DOMAIN files

\* C8: get_page_content(url, session, n) makes at most n requests; when it
\* returns None every one of n requests has failed; when it returns a page the
\* request that succeeded was its last; once it has returned it makes no
\* request.
C8_RetryBound ==
    /\ ft.requests <= ft.max_retries
    /\ (ft.pc = "returned" /\ ft.result = NULL) =>
          (ft.requests = ft.max_retries /\ ft.attempt = Max0(ft.max_retries - 1))
    /\ (ft.pc = "returned" /\ ft.result # NULL) =>
          (ft.requests = ft.attempt + 1 /\ ft.error = "none")
    /\ ft.pc \in {"returned", "raised"} => ~ENABLED FetchAttempt

\* The default three attempts have all failed and None was returned.
C8_Witness ==
    /\ ft.pc = "returned" /\ ft.result = NULL
    /\ ft.max_retries = DefaultMaxRetries /\ ft.requests = DefaultMaxRetries
    /\ ft.error = "RequestException"

\* C9 as stated: no call of get_page_content raises, and no Collector or
\* Processor run ends in a crash.
C9_Original ==
    /\ ft.pc # "raised"
    /\ ~(dl.pc = "exit" /\ dl.rc = 1)

\* The url the running process fetches next, if any.
NextUrls ==
    IF dl.pc = "collect_loop" /\ dl.page_num < dl.max_pages
    THEN {PageUrl(Site, dl.page_num)}
    ELSE IF dl.pc = "process_loop" /\ dl.i <= Len(dl.pending_songs)
    THEN {dl.pending_songs[dl.i].url}
    ELSE {}

\* C9: a requests.RequestException raised by a request attempt never leaves
\* get_page_content, which retries or returns None, and never crashes the
\* Collector or the Processor; a call that raises, and a run that crashes,
\* does so on an exception of another class.
C9_OnlyOtherErrorsEscape ==
    /\ ft.pc = "raised" => ft.error = "other"
    /\ (dl.pc = "exit" /\ dl.rc = 1) => (ft.pc = "raised" /\ ft.error = "other")
    /\ \A url \in NextUrls :
          \A f \in get_page_content(url, DefaultMaxRetries) :
              f.error = "RequestException" =>
                  (f.pc = "returned" /\ f.result = NULL
                      /\ f.requests = DefaultMaxRetries)

\* The fetch of a record's page failed on all its attempts, and the Processor
\* marked the record failed and runs on.
C9_Witness ==
    /\ dl.pc = "process_commit" /\ dl.song_data = NULL
    /\ RowOf(dl.conn, Current(dl)).status = "failed"

\* C10 as stated: processed_at is set if and only if the record is processed
\* or failed, and once set never changes.
C10_OriginalStep ==
    /\ \A i \in 1..Len(db') :
          (db'[i].processed_at # NULL) <=> Terminal(db'[i].status)
    /\ \A i \in 1..Len(db) :
          db[i].processed_at # NULL =>
              (i <= Len(db') /\ db'[i].processed_at = db[i].processed_at)

C10_Original == [][C10_OriginalStep]_vars

\* C10: processed_at is set if and only if the record is processed (a failed
\* record has none); it is set in the step that makes the record processed, to
\* the time of that step or an earlier one of the run, and once set it never
\* changes.
C10_Step ==
    /\ \A i \in 1..Len(db') :
          /\ (db'[i].processed_at # NULL) <=> (db'[i].status = "processed")
          /\ db'[i].processed_at # NULL => db'[i].processed_at[1] <= clock'
    /\ \A i \in 1..Len(db) :
          db[i].processed_at # NULL =>
              (i <= Len(db') /\ db'[i].processed_at = db[i].processed_at)

C10_ProcessedAt == [][C10_Step]_vars

\* The store holds a failed record, without processed_at, and a record
\* processed at an earlier time.
C10_Witness ==
    \E i, j \in 1..Len(db) :
        /\ db[i].status = "failed" /\ db[i].processed_at = NULL
        /\ db[j].status = "processed" /\ db[j].processed_at # NULL
        /\ db[j].processed_at[1] < clock

\* lyrics and filename of the rows are set on the processed ones only, and a
\* processed row's file is in the output directory.
BodyOnProcessedOnly(rows, fs) ==
    \A i \in 1..Len(rows) :
        IF rows[i].status = "processed"
        THEN /\ rows[i].lyrics # NULL /\ rows[i].lyrics[1] # <<>>
             /\ rows[i].filename # NULL /\ rows[i].filename[1] \in DOMAIN fs
        ELSE rows[i].lyrics = NULL /\ rows[i].filename = NULL

\* The step sets status to processed, lyrics and filename of a row together or
\* not at all.
SetTogether(before, after) ==
    \A i \in 1..Min(Len(before), Len(after)) :
        LET processed == before[i].status # "processed"
                             /\ after[i].status = "processed"
        IN  /\ processed <=> (after[i].lyrics # before[i].lyrics)
            /\ processed <=> (after[i].filename # before[i].filename)

\* C11: in the store, and in the Processor's open transaction, lyrics and
\* filename are NULL on every pending or failed record, and a processed record
\* has non-empty lyrics and the name of a file that was written; the step that
\* makes a record processed is the step that sets both.
C11_Step ==
    /\ BodyOnProcessedOnly(db', files')
    /\ InProcessor(dl') => BodyOnProcessedOnly(dl'.conn, files')
    /\ SetTogether(db, db')
    /\ (InProcessor(dl) /\ InProcessor(dl')) => SetTogether(dl.conn, dl'.conn)

C11_BodyOnlyOnProcessed == [][C11_Step]_vars

\* The store holds a processed record, with lyrics and the name of its file, and
\* a failed record.
C11_Witness ==
    \E i, j \in 1..Len(db) :
        /\ db[i].status = "processed" /\ db[i].lyrics # NULL
        /\ db[i].filename # NULL /\ db[i].filename[1] \in DOMAIN files
        /\ db[j].status = "failed" /\ db[j].lyrics = NULL

\* The item page's value of a field, or the record's where the page has none.
OrElse(page_value, record_value) ==
    IF Truthy(page_value) THEN page_value ELSE record_value

\* C12: the file name computed for a record is the Namer's name for title,
\* musician and songwriter of the item page, each replaced by the record's
\* discovery-time value where the page's is empty.
C12_FallbackToDiscovery ==
    dl.pc = "process_write" =>
        LET song == dl.pending_songs[dl.i]
            song_data == dl.song_data[1]
        IN  dl.filename[1] = generate_filename(
                [song_data EXCEPT !.title = OrElse(@, song.title),
                                  !.musician = OrElse(@, song.musician),
                                  !.songwriter = OrElse(@, song.songwriter)])

\* C13: two processed records never have the same artifact file.
C13_OneFilePerRecord ==
    \A i, j \in 1..Len(db) :
        (i # j /\ db[i].status = "processed" /\ db[j].status = "processed")
            => db[i].filename # db[j].filename

\* C14: the write step adds no file but the one generate_filename names for the
\* fetched song_data, and an artifact that is in the output directory already
\* (left by a run killed before its commit) is written to the same name, so no
\* second file appears; the commit of the record then stores the lyrics and the
\* file name of that song_data, as an uninterrupted run does.
C14_Step ==
    /\ (dl.pc = "process_write" /\ dl'.pc = "process_update") =>
          LET name == generate_filename(dl.song_data[1])
              content == format_lyrics_markdown(dl.song_data[1])
          IN  /\ DOMAIN files' = DOMAIN files \cup {name}
              /\ files'[name] = content
              /\ (\E n \in DOMAIN files : files[n] = content) => files' = files
    /\ (dl.pc = "process_commit" /\ dl'.pc = "process_loop"
            /\ RowOf(db', Current(dl)).status = "processed") =>
          LET row == RowOf(db', Current(dl))
          IN  /\ row.lyrics = Some(dl.song_data[1].lyrics)
              /\ row.filename = Some(generate_filename(dl.song_data[1]))
              /\ row.filename[1] \in DOMAIN files'
              /\ files' = files

Pending(rows) == Cardinality(PendingIds(rows))

\* C15: process_batch starts a Processor only when a record is pending; a batch
\* that returns exit code 0 leaves fewer records pending than the count read
\* before it; an iteration that reads zero pending stops the loop; and every
\* run of batch_process.py ends.
C15_Step ==
    /\ bp'.started > bp.started => (bp.pc = "loop" /\ Pending(db) > 0)
    /\ (bp.pc = "wait" /\ bp'.pc = "loop") =>
          (dl.rc = 0 /\ bp.pending_count > 0 /\ Pending(db') < bp.pending_count)
    /\ (bp.pc = "loop" /\ bp'.pc = "finish" /\ bp.max_batches = 0) =>
          \/ bp'.stop = "none_pending" /\ Pending(db) = 0
          \/ bp'.stop = "error" /\ Pending(db) > 0
    /\ (bp.pc = "loop" /\ bp' # bp /\ table_exists /\ Pending(db) = 0
            /\ ~(bp.max_batches # 0 /\ bp.batch_num >= bp.max_batches)) =>
          (bp'.pc = "finish" /\ bp'.stop = "none_pending" /\ dl' = dl)

C15_BatchesTerminate ==
    /\ [][C15_Step]_vars
    /\ (bp.pc # "off") ~> (bp.pc = "off")

\* process_batch, without max_batches, ran two batches and stopped on reading
\* zero pending.
C15_Witness ==
    /\ bp.pc = "finish" /\ bp.stop = "none_pending"
    /\ bp.max_batches = 0 /\ bp.batch_num >= 2
    /\ Pending(db) = 0

\* C16: when a Processor invocation returns a non-zero exit code, or the timeout
\* expires on it, process_batch leaves its loop; from then until batch_process.py
\* ends it starts no Processor, no Processor runs, and the store is unchanged, so
\* the records that are pending stay pending.
C16_Step ==
    /\ (bp.pc = "wait" /\ dl.pc = "exit" /\ dl.rc # 0 /\ bp' # bp) =>
          (bp'.pc = "finish" /\ bp'.stop = "failed")
    /\ (bp.pc = "wait" /\ bp'.stop = "timeout") =>
          (bp'.pc = "finish" /\ dl'.pc = "off" /\ db' = db)
    /\ (bp.stop \in {"failed", "timeout"} /\ bp'.pc # "off") =>
          /\ bp'.pc \in {"finish", "exit"}
          /\ bp'.started = bp.started /\ bp'.stop = bp.stop
          /\ dl.pc = "off" /\ dl'.pc = "off"
          /\ db' = db

C16_NoRetryAfterFailure == [][C16_Step]_vars

\* process_batch has left its loop after its first batch failed, or timed out,
\* with records pending.
C16_Witness ==
    /\ bp.stop \in {"failed", "timeout"} /\ bp.pc = "exit"
    /\ bp.started = 1 /\ Pending(db) > 0

\* C17: batch_process.py ends with exit code 0 when it stopped on zero pending or
\* on max_batches, and with a non-zero exit code when it stopped on a batch that
\* returned a non-zero exit code or timed out.
C17_ExitCodes ==
    bp.pc = "exit" =>
        /\ bp.stop \in {"none_pending", "max_batches"} => bp.rc = 0
        /\ bp.stop \in {"failed", "timeout"} => bp.rc # 0

\* The row is as INSERT left it, or carries all of a transition and no more.
Whole(row) ==
    IF row.status = "processed"
    THEN row.processed_at # NULL /\ row.lyrics # NULL /\ row.filename # NULL
    ELSE row.processed_at = NULL /\ row.lyrics = NULL /\ row.filename = NULL

\* The Processor is between the start of a record's fetch and the commit of
\* its status.
InFlight(d) ==
    \/ d.pc = "process_loop" /\ d.i <= Len(d.pending_songs)
    \/ d.pc \in {"process_write", "process_update", "process_commit"}

\* C18: when the timeout of process_batch kills the Processor, the store is what
\* was last committed: every record is whole, each record the batch selected is
\* as it was selected or terminal, and the record in flight is pending and is in
\* the selection of a next batch of any size.
C18_Step ==
    (bp.pc = "wait" /\ bp'.stop = "timeout") =>
        /\ db' = db
        /\ \A i \in 1..Len(db') : Whole(db'[i])
        /\ \A k \in 1..Len(dl.pending_songs) :
              LET row == RowOf(db', dl.pending_songs[k].id)
              IN  \/ row = dl.pending_songs[k]
                  \/ Terminal(row.status)
                        /\ [row EXCEPT !.status = "pending", !.processed_at = NULL,
                                       !.lyrics = NULL, !.filename = NULL]
                               = dl.pending_songs[k]
        /\ InFlight(dl) =>
              /\ RowOf(db', Current(dl)) = dl.pending_songs[dl.i]
              /\ \A n \in 1..MaxLimit :
                    \A sel \in Selections(db', n, FALSE) :
                        Current(dl) \in Ids(sel)

C18_TimeoutLeavesStoreWhole == [][C18_Step]_vars

\* The timeout killed a batch of two that had committed its first record and
\* had the second in flight.
C18_Witness ==
    /\ bp.stop = "timeout" /\ bp.pc = "finish" /\ bp.batch_size = 2
    /\ Len(db) = 2
    /\ Terminal(db[1].status) /\ db[2].status = "pending"

\* C19: whenever the Processor is at the head of its loop, about to fetch record
\* i or to end, its transaction holds nothing uncommitted and each of the
\* records 1..i-1 of its selection has its terminal status in the committed
\* store; a step that kills or crashes the process leaves the committed store as
\* it is.
C19_Step ==
    /\ dl'.pc = "process_loop" =>
          /\ dl'.conn = db'
          /\ \A k \in 1..(dl'.i - 1) :
                Terminal(RowOf(db', dl'.pending_songs[k].id).status)
    /\ (InFlight(dl) /\ dl'.pc \in {"off", "exit"}) => db' = db

C19_CommitBeforeNext == [][C19_Step]_vars

\* The Processor is about to fetch the second record of its selection, and the
\* first record's failed status is committed.
C19_Witness ==
    /\ dl.pc = "process_loop" /\ dl.i = 2 /\ Len(dl.pending_songs) = 2
    /\ RowOf(db, dl.pending_songs[1].id).status = "failed"
    /\ RowOf(db, dl.pending_songs[2].id).status = "pending"

\* The urls of the rows.
Urls(rows) == {rows[i].url : i \in 1..Len(rows)}

\* The run ended on an exception that left get_page_content.
Aborted(d) == d.pc = "exit" /\ d.rc = 1

\* C20: every step of the Collector's loop, at page index p < max_pages, goes on
\* to index p + 1 and either leaves the store as it is (the page was not
\* fetched, or brought nothing new) or has inserted the entries of a listing of
\* page p; at index max_pages the loop ends and inserts nothing; and the loop
\* always ends.
C20_Step ==
    (dl.pc = "collect_loop" /\ dl' # dl /\ ~Killed(dl') /\ ~Aborted(dl')) =>
        IF dl.page_num < dl.max_pages
        THEN /\ dl'.pc = "collect_loop"
             /\ dl'.page_num = dl.page_num + 1
             /\ dl'.max_pages = dl.max_pages
             /\ \/ db' = db /\ dl'.page_songs = dl.page_songs
                \/ /\ \E v \in ListingVersions :
                         dl'.page_songs =
                             extract_songs_from_page(ListingPage(dl.page_num, v), Site)
                   /\ Urls(db') = Urls(db) \cup Urls(dl'.page_songs)
        ELSE /\ dl'.pc \in {"exit", "process_select"}
             /\ dl.page_num = dl.max_pages
             /\ db' = db

Usable(link) ==
    /\ link.href # NULL
    /\ link.href[1][1] = "/node/"
    /\ \E k \in 1..Len(link.text) : ~IsSpace(link.text[k])

\* The positions of the usable links of a page, and the position of the k-th.
UsableAt(page) == {i \in 1..Len(page) : Usable(page[i])}
KthUsable(page, k) ==
    CHOOSE i \in UsableAt(page) :
        Cardinality({j \in UsableAt(page) : j <= i}) = k

\* C21: extract_songs_from_page returns, in page order, exactly one record for
\* each link that has an item href and a title that is not blank, and none for
\* any other link: the k-th record carries the url and the title of the k-th
\* usable link.
C21_ExtractListing ==
    dl.pc = "extracted" =>
        LET page == ft.result[1]
        IN  /\ Len(dl.page_songs) = Cardinality(UsableAt(page))
            /\ \A k \in 1..Len(dl.page_songs) :
                  LET link == page[KthUsable(page, k)]
                  IN  /\ dl.page_songs[k].url = urljoin(Site, link.href[1])
                      /\ dl.page_songs[k].title = get_text(link.text)
                      /\ Truthy(dl.page_songs[k].title)

\* A page of two valid entries around a link without href gave two records, in
\* page order.
C21_Witness ==
    /\ dl.pc = "extracted"
    /\ ft.result[1] = <<EntryRow(2, 1), DecorativeRows[1], EntryRow(1, 1)>>
    /\ Len(dl.page_songs) = 2
    /\ dl.page_songs[1].url = urljoin(Site, NodeHref(2))
    /\ dl.page_songs[2].url = urljoin(Site, NodeHref(1))

\* The file name of a name stem.
NameOfStem(stem) ==
    sanitize_filename(transliterate_tatar_to_latin(stem)) \o <<".", "m", "d">>

\* "{label} - {title}" if the label is not empty, else the title alone.
Stem(label, title) ==
    IF label # <<>> THEN label \o <<" ", "-", " ">> \o title ELSE title

\* The label of two attributions: first, a space and second when both are
\* present, the one that is present when one is, empty when none is.
Label(first, second) ==
    IF first # <<>> /\ second # <<>> THEN first \o <<" ">> \o second
    ELSE IF first # <<>> THEN first
    ELSE second

\* C22 as stated: the label is the composer followed by the lyricist.
C22_Original ==
    dl.pc = "named" =>
        LET song_data == dl.song_data[1]
        IN  dl.filename[1] =
                NameOfStem(Stem(Label(song_data.musician, song_data.songwriter),
                                song_data.title))

\* C22: the Namer builds its label as the lyricist followed by the composer
\* when both are present, as the single present attribution when only one is,
\* and as empty when neither is; the name stem is "{label} - {title}" when the
\* label is not empty and the title alone otherwise.
C22_NameStem ==
    dl.pc = "named" =>
        LET song_data == dl.song_data[1]
        IN  dl.filename[1] =
                NameOfStem(Stem(Label(song_data.songwriter, song_data.musician),
                                song_data.title))

\* An item with lyricist San and composer Radik was named san_radik_-_saginu.md.
C22_Witness ==
    /\ dl.pc = "named"
    /\ dl.song_data[1].songwriter = T_San
    /\ dl.song_data[1].musician = T_Radik
    /\ dl.song_data[1].title = T_Saginu
    /\ dl.filename[1] = <<"s", "a", "n", "_", "r", "a", "d", "i", "k", "_", "-",
                           "_", "s", "a", "g", "i", "n", "u", ".", "m", "d">>

\* The positions of the pending rows, and the position of the k-th of them.
PendingAt(rows) == {i \in 1..Len(rows) : rows[i].status = "pending"}
KthPending(rows, k) ==
    CHOOSE i \in PendingAt(rows) :
        Cardinality({j \in PendingAt(rows) : j <= i}) = k

\* The process runs the loop of process_songs.
InLoop(d) ==
    d.pc \in {"process_loop", "process_write", "process_update", "process_commit"}

\* C23: without --test, a Processor run with --limit L >= 1 selects the first
\* min(L, number of pending records) pending records in insertion order, and
\* without --limit all of them in insertion order; it attempts the records of
\* its selection one after the other in that order, and no step of the run
\* changes the status of a record outside the selection.
C23_Step ==
    /\ (Selecting /\ ~dl.test_mode) =>
          LET count == Cardinality(PendingAt(db))
              n == IF dl.limit >= 1 THEN Min(dl.limit, count) ELSE count
          IN  /\ Len(dl'.pending_songs) = n
              /\ \A k \in 1..n : dl'.pending_songs[k] = db[KthPending(db, k)]
              /\ dl'.i = 1
    /\ (InLoop(dl) /\ InLoop(dl') /\ dl' # dl /\ ~dl.test_mode) =>
          /\ dl'.pending_songs = dl.pending_songs
          /\ dl'.i = IF dl.pc = "process_commit" THEN dl.i + 1 ELSE dl.i
          /\ \A j \in 1..Len(dl.conn) :
                dl'.conn[j].status # dl.conn[j].status =>
                    /\ dl.i <= Len(dl.pending_songs)
                    /\ dl.conn[j].id = Current(dl)
    /\ (InLoop(dl) /\ ~dl.test_mode) =>
          \A j \in 1..Len(db) :
              db'[j].status # db[j].status => db[j].id \in Ids(dl.pending_songs)

C23_CapSelectsFirst == [][C23_Step]_vars

\* A run with --limit 1 over two pending records selected the first, committed
\* its terminal status and left the second pending.
C23_Witness ==
    /\ dl.pc = "process_loop" /\ dl.limit = 1 /\ ~dl.test_mode /\ dl.i = 2
    /\ Len(dl.pending_songs) = 1 /\ dl.pending_songs[1].id = 1
    /\ Len(db) = 2
    /\ Terminal(db[1].status) /\ db[2].status = "pending"

\* C24: the Processor runs the orchestrator starts never overlap: while
\* process_batch is anywhere but inside subprocess.run no child of it runs, so
\* the head of the loop, where the next child is started, is reached only after
\* the previous child has ended, and after a timeout the child is gone when
\* process_batch goes on; inside subprocess.run there is the one child of that
\* call.
C24_NoOverlap ==
    /\ bp.pc \in {"loop", "finish", "exit"} => dl.pc = "off" /\ ft.pc = "off"
    /\ bp.pc = "wait" => dl.pc # "off" /\ bp.started = bp.batch_num + 1
    /\ bp.stop \in {"timeout", "interrupt"} => dl.pc = "off"

\* The timeout ended the first batch and process_batch is past its loop.
C24_Witness ==
    /\ bp.pc = "finish" /\ bp.stop = "timeout" /\ bp.started = 1
    /\ dl.pc = "off"

\* The batch that was started last did not end with exit code 0.
LastBatchLost(b) == b.stop \in {"failed", "timeout", "interrupt"}

\* C30: with max_batches = m >= 1 process_batch starts at most m Processor
\* runs: batch_num counts the batches that ended with exit code 0 and nothing
\* else, a batch that failed or timed out is the last one started and ends the
\* loop, a child is only ever running while batch_num < m, and the loop has
\* ended on the max_batches test exactly when batch_num = m, whatever is
\* pending.
C30_AtMostMaxBatches ==
    bp.max_batches >= 1 =>
        /\ bp.started <= bp.max_batches
        /\ bp.batch_num <= bp.max_batches
        /\ bp.started = bp.batch_num
                + (IF bp.pc = "wait" \/ LastBatchLost(bp) THEN 1 ELSE 0)
        /\ bp.total_processed = bp.batch_num * bp.batch_size
        /\ LastBatchLost(bp) => bp.pc \in {"finish", "exit"}
        /\ bp.pc = "wait" => bp.batch_num < bp.max_batches
        /\ bp.stop = "max_batches" => bp.batch_num = bp.max_batches
        /\ (bp.pc = "finish" /\ bp.batch_num = bp.max_batches)
              => bp.stop = "max_batches"

\* A run with --max-batches 1 ended after its one batch of one record while a
\* record was still pending.
C30_Witness ==
    /\ bp.pc = "finish" /\ bp.stop = "max_batches"
    /\ bp.max_batches = 1 /\ bp.started = 1 /\ bp.batch_num = 1
    /\ get_pending_count(db) > 0

\* C26: within one call of get_page_content every request comes right after a
\* pre-request delay of its own and every backoff sleep right after a failed
\* request that is not the last; a call of max_retries = n >= 1 whose attempts
\* all fail has slept n delays and n - 1 backoffs and returns None with the n-th
\* request as the last thing it did.
C26_DelaysAndBackoffs ==
    LET e == ft.events
    IN  /\ ft.delays = ft.requests
        /\ \A k \in 1..Len(e) :
              /\ e[k] = "request" => (k > 1 /\ e[k - 1] = "delay")
              /\ e[k] = "delay" => (k < Len(e) /\ e[k + 1] = "request")
              /\ e[k] = "backoff" =>
                    /\ k > 1 /\ e[k - 1] = "request"
                    /\ IF k < Len(e) THEN e[k + 1] = "delay"
                       ELSE ft.pc = "attempt"
        /\ ft.backoffs = Max0(ft.attempt)
        /\ (ft.pc = "returned" /\ ft.result = NULL /\ ft.max_retries >= 1) =>
              /\ ft.delays = ft.max_retries
              /\ ft.backoffs = ft.max_retries - 1
              /\ Len(e) = 3 * ft.max_retries - 1
              /\ e[Len(e)] = "request"

\* A call with max_retries = 3 failed three times: three delays, two backoffs.
C26_Witness ==
    /\ ft.pc = "returned" /\ ft.result = NULL /\ ft.max_retries = 3
    /\ ft.events = <<"delay", "request", "backoff", "delay", "request",
                      "backoff", "delay", "request">>

\* What the Collector stored of each row, in rowid order.
Discovered(rows) ==
    [i \in 1..Len(rows) |->
        <<rows[i].id, rows[i].url, rows[i].title, rows[i].musician,
          rows[i].songwriter, rows[i].created_at>>]

\* C27: no step of a Processor run inserts or deletes a record or changes a
\* record's id, url, title, musician, songwriter or created_at, in its
\* transaction or in the committed store (what it changes is among status,
\* processed_at, lyrics and filename); the number of records changes only in a
\* step of the Collector's loop, and then it grows.
C27_Step ==
    /\ InProcessor(dl) => Discovered(db') = Discovered(db)
    /\ (InLoop(dl) /\ InLoop(dl')) => Discovered(dl'.conn) = Discovered(dl.conn)
    /\ Len(db') # Len(db) => (dl.pc = "collect_loop" /\ Len(db') > Len(db))

C27_ProcessorFrame == [][C27_Step]_vars

\* A Processor run has committed the first of two records as processed at time
\* 1; the record was discovered at time 0.
C27_Witness ==
    /\ dl.pc = "process_loop" /\ dl.i = 2
    /\ Len(db) = 2 /\ db[1].status = "processed"
    /\ db[1].created_at = 0 /\ db[1].processed_at = Some(1)
    /\ db[1].id = dl.pending_songs[1].id

\* The rows that are processed name a file of the output directory.
ArtifactsThere(rows) ==
    \A i \in 1..Len(rows) :
        rows[i].status = "processed" =>
            (rows[i].filename # NULL /\ rows[i].filename[1] \in DOMAIN files)

\* C28: the artifact is written before the record is marked processed: the file
\* is in the output directory when the UPDATE is about to run, every record the
\* open transaction has marked processed names a file that is there, and so does
\* every processed record of the committed store, in every reachable state,
\* those after a kill, a crash or a timeout included.
C28_ArtifactBeforeProcessed ==
    /\ dl.pc = "process_update" => dl.filename[1] \in DOMAIN files
    /\ ArtifactsThere(dl.conn)
    /\ ArtifactsThere(db)

\* The timeout killed a batch that had committed a processed record; the
\* record's file is in the output directory.
C28_Witness ==
    /\ bp.pc = "finish" /\ bp.stop = "timeout"
    /\ \E i \in 1..Len(db) :
          /\ db[i].status = "processed"
          /\ db[i].filename[1] \in DOMAIN files
          /\ files[db[i].filename[1]].fenced = db[i].lyrics[1]

\* The step is main's init_database, with the choice of the mode after it.
Initializing == dl.pc = "main" /\ dl'.pc \in {"collect_loop", "process_select"}

\* C29: init_database on a store that exists leaves every record and every
\* field as it is, and the files too, whether an operator started the Collector
\* or the Processor or process_batch started the Processor for a batch; on a
\* store that does not exist it creates the empty table.
C29_Step ==
    Initializing =>
        /\ table_exists'
        /\ files' = files
        /\ IF table_exists THEN db' = db ELSE db' = <<>>

C29_InitKeepsStore == [][C29_Step]_vars

\* The child of a batch has run init_database on a store that holds a processed
\* record, and is about to select.
C29_Witness ==
    /\ bp.pc = "wait" /\ dl.pc = "process_select"
    /\ Len(db) = 2 /\ db[1].status = "processed" /\ db[2].status = "pending"
    /\ dl.conn = db

\* C25: a run of normalize_names.py with --dry-run changes no file: no step of
\* it, whether its pair is merged automatically, left for manual review or
\* skipped because one of its names was merged earlier in the run, writes a
\* file of translated/ or the seen-pairs file.
C25_Step ==
    (nn.pc # "off" /\ nn.dry_run) =>
        /\ translated' = translated
        /\ seen_file' = seen_file

C25_DryRunWritesNothing == [][C25_Step]_vars

\* A dry run has ended after one automated merge, one pair skipped for a merged
\* name and one pair left for manual review; the merged name is gone from the
\* names in memory and still in a file, and no seen file exists.
C25_Witness ==
    /\ nn.pc = "exit" /\ nn.dry_run /\ ~nn.auto_only
    /\ nn.auto_merged = 1 /\ nn.manual_review = 1
    /\ Cardinality(nn.seen_pairs) = 3
    /\ \E name \in Headings : \E f \in DOMAIN translated :
          name = translated[f] /\ name \cap DOMAIN nn.all_names = {}
    /\ seen_file = NULL

\* C31 as stated: the total process_batch reports is batch_size times the
\* number of batches that ended with exit code 0, is at least the number of
\* records that left pending during the run, and equals that number only if
\* every such batch found at least batch_size pending records.
C31_Original ==
    bp.pc = "finish" =>
        /\ bp.total_processed = bp.batch_size * bp.batch_num
        /\ bp.total_processed >= bp.left_ok + bp.left_lost
        /\ bp.total_processed = bp.left_ok + bp.left_lost => ~bp.short

\* C31: the total process_batch reports is batch_size times the number of
\* batches that ended with exit code 0; it is at least the number of records
\* that left pending in those batches, and equals that number only if every
\* one of them found at least batch_size pending records.  (Records a failed,
\* interrupted or timed-out batch had committed are not counted at all.)
C31_ReportedTotal ==
    bp.pc = "finish" =>
        /\ bp.total_processed = bp.batch_size * bp.batch_num
        /\ bp.total_processed >= bp.left_ok
        /\ bp.total_processed = bp.left_ok => ~bp.short

\* A run with --batch-size 2 reports 2 after one batch that ended with exit
\* code 0 and had found, and taken out of pending, one record.
C31_Witness ==
    /\ bp.pc = "finish" /\ bp.batch_size = 2 /\ bp.batch_num = 1
    /\ bp.total_processed = 2 /\ bp.left_ok = 1 /\ bp.short
    /\ get_pending_count(db) = 0

====
